---------------------------- MODULE Spec2Model ----------------------------
(***************************************************************************)
(* Model of the consistency validator of flowspec-mcp                      *)
(* (src/src/tools/validateProject.ts).                                     *)
(*                                                                         *)
(* A project graph is a list of nodes and a list of edges.  Node ids are   *)
(* strings in the program; here they are naturals, whose numeric order     *)
(* stands for the lexicographic order of the id strings.  A label is a     *)
(* sequence of one-character strings, so that trim() and toLowerCase()     *)
(* are computed and not assumed.  A string-valued field that is absent     *)
(* holds Undefined; a list-valued field that is absent is named in the     *)
(* node's `absent` set.                                                    *)
(***************************************************************************)
EXTENDS Naturals, Sequences, FiniteSets, TLC

\* found: getProject returns the project; nodes, edges: its canvas_state;
\* result: what the last call of validate_project returned; reports: what
\* every call so far returned, each with the project it was asked about.
VARIABLES found, nodes, edges, result, reports

vars == <<found, nodes, edges, result, reports>>

\* ---------------------------------------------------------------------
\* Values

Undefined == "undefined"
UndefinedLabel == <<"undefined">>
Untitled == <<"Untitled">>
UnknownLabel == <<"Unknown">>
EmptyLabel == <<>>

NodeTypes == {"datapoint", "component", "transform", "table", "screen", "image"}
EdgeTypes == {"flows-to", "derives-from", "transforms", "validates", "contains"}

\* A node of the canvas: CanvasNode with its data bag flattened.
\* dtype is data.type (the data type of a datapoint, the logic type of a
\* transform); members are records [name, transformId]; columns are records
\* [name, type].
Node(id, type, label, dtype, source, members, columns, captures, displays, absent) ==
    [id |-> id, type |-> type, label |-> label, dtype |-> dtype, source |-> source,
     members |-> members, columns |-> columns, captures |-> captures,
     displays |-> displays, absent |-> absent]

\* An edge of the canvas: CanvasEdge; edgeType is data.edgeType.
Edge(source, target, edgeType) ==
    [source |-> source, target |-> target, edgeType |-> edgeType]

\* ---------------------------------------------------------------------
\* Array helpers

RECURSIVE Flatten(_)
\* [].concat(...ss): the elements of the lists of ss, in order.
Flatten(ss) == IF ss = <<>> THEN <<>> ELSE Head(ss) \o Flatten(Tail(ss))

\* Array.prototype.map
Map(s, F(_)) == [i \in 1..Len(s) |-> F(s[i])]

\* The index of the first element of s that satisfies P, 0 when there is none.
FirstIndex(s, P(_)) ==
    LET I == {i \in 1..Len(s) : P(s[i])}
    IN IF I = {} THEN 0 ELSE CHOOSE i \in I : \A j \in I : i <= j

\* Array.prototype.indexOf, 1-based; 0 when x is not in s.
IndexOf(s, x) == FirstIndex(s, LAMBDA y : y = x)

Range(s) == {s[i] : i \in 1..Len(s)}

\* nodes.find(n => n.id === id)?.type, Undefined when no node has the id.
TypeOfId(ns, id) ==
    LET i == FirstIndex(ns, LAMBDA n : n.id = id)
    IN IF i = 0 THEN Undefined ELSE ns[i].type

\* ---------------------------------------------------------------------
\* Strings

\* String.prototype.toLowerCase on one character of the model's alphabet.
LowerChar(c) == CASE c = "A" -> "a" [] c = "B" -> "b" [] OTHER -> c

toLowerCase(s) == [i \in 1..Len(s) |-> LowerChar(s[i])]

RECURSIVE trimStart(_)
trimStart(s) == IF s # <<>> /\ Head(s) = " " THEN trimStart(Tail(s)) ELSE s

RECURSIVE trimEnd(_)
trimEnd(s) ==
    IF s # <<>> /\ s[Len(s)] = " " THEN trimEnd(SubSeq(s, 1, Len(s) - 1)) ELSE s

\* String.prototype.trim
trim(s) == trimEnd(trimStart(s))

\* data?.label ?? dflt
LabelOr(n, dflt) == IF n.label = UndefinedLabel THEN dflt ELSE n.label

\* data?.members ?? [], data?.columns ?? [], ...
ListOr(n, f) == IF f \in n.absent THEN <<>> ELSE n[f]

\* ---------------------------------------------------------------------
\* Severity

SEVERITY_MAP ==
    [v \in {"missing-source", "no-inputs", "no-outputs",
            "insufficient-workflow-members", "workflow-no-outputs",
            "component-no-datapoints", "circular-dependency", "orphan-node"}
        |-> "error"]
    @@ [v \in {"wrong-source-type", "multiple-sources", "type-mismatch",
               "invalid-capture-reference", "invalid-display-reference",
               "duplicate-label", "datapoint-tbd-type", "table-column-tbd",
               "dangling-member-reference", "nested-workflow", "empty-workflow"}
        |-> "warning"]
    @@ [v \in {"empty-screen"} |-> "info"]

\* severity that falls back to 'warning' for every violation kind.
severity_AlwaysWarning(violation) == "warning"

severity(violation) ==
    IF violation \in DOMAIN SEVERITY_MAP THEN SEVERITY_MAP[violation] ELSE "warning"

\* ---------------------------------------------------------------------
\* Workflow members

\* No node id: the transformId of a member that has none (absent, or the
\* empty string; the program only tests its truthiness).
NoId == 0

\* m.transformId is truthy.
HasTransformId(m) == m.transformId # NoId

IsWorkflowWithMembers(n) ==
    n.type = "transform" /\ n.dtype = "workflow" /\ "members" \notin n.absent

\* collectWorkflowMemberIds that keeps only the members that are transforms.
collectWorkflowMemberIds_TransformsOnly(ns) ==
    {id \in UNION {{n.members[j].transformId : j \in {k \in 1..Len(n.members) :
                                                        HasTransformId(n.members[k])}} :
                   n \in {m \in Range(ns) : IsWorkflowWithMembers(m)}} :
        TypeOfId(ns, id) = "transform"}

collectWorkflowMemberIds(ns) ==
    UNION {{n.members[j].transformId : j \in {k \in 1..Len(n.members) :
                                               HasTransformId(n.members[k])}} :
           n \in {m \in Range(ns) : IsWorkflowWithMembers(m)}}

\* ---------------------------------------------------------------------
\* Provenance check

expectedTypesOf(source) ==
    CASE source = "captured" -> <<"screen", "component">>
      [] source = "retrieved" -> <<"table", "transform", "component">>
      [] source = "inferred" -> <<"transform">>
      [] OTHER -> <<>>

\* The filter of validateDataPointSources: the edges into dp that count.
IsIncomingSourceEdge(ns, dp, e) ==
    /\ e.target = dp.id
    /\ (e.edgeType = "contains" => TypeOfId(ns, e.source) # "table")

\* dataPointIssue that does not default an absent source to captured.
dataPointIssue_NoSourceDefault(ns, es, dp) ==
    LET source == dp.source
        label == LabelOr(dp, Untitled)
        incomingEdges == SelectSeq(es, LAMBDA e : IsIncomingSourceEdge(ns, dp, e))
        sourceNodeTypes ==
            SelectSeq(Map(incomingEdges,
                          LAMBDA e : LET t == TypeOfId(ns, e.source)
                                     IN IF t = Undefined THEN "unknown" ELSE t),
                      LAMBDA t : t # "unknown")
        expectedTypes == expectedTypesOf(source)
        actualType == IF sourceNodeTypes = <<>> THEN Undefined ELSE sourceNodeTypes[1]
        issue(v, actual) ==
            [violation |-> v, nodeId |-> dp.id, label |-> label, source |-> source,
             expectedSourceTypes |-> expectedTypes, actualSourceTypes |-> actual,
             severity |-> severity(v)]
    IN IF Len(incomingEdges) = 0 THEN <<issue("missing-source", <<>>)>>
       ELSE IF Len(incomingEdges) > 1 THEN <<issue("multiple-sources", sourceNodeTypes)>>
       ELSE IF actualType \notin Range(expectedTypes)
            THEN <<issue("wrong-source-type", <<actualType>>)>>
       ELSE <<>>

dataPointIssue(ns, es, dp) ==
    LET source == IF dp.source = Undefined THEN "captured" ELSE dp.source
        label == LabelOr(dp, Untitled)
        incomingEdges == SelectSeq(es, LAMBDA e : IsIncomingSourceEdge(ns, dp, e))
        sourceNodeTypes ==
            SelectSeq(Map(incomingEdges,
                          LAMBDA e : LET t == TypeOfId(ns, e.source)
                                     IN IF t = Undefined THEN "unknown" ELSE t),
                      LAMBDA t : t # "unknown")
        expectedTypes == expectedTypesOf(source)
        actualType == IF sourceNodeTypes = <<>> THEN Undefined ELSE sourceNodeTypes[1]
        issue(v, actual) ==
            [violation |-> v, nodeId |-> dp.id, label |-> label, source |-> source,
             expectedSourceTypes |-> expectedTypes, actualSourceTypes |-> actual,
             severity |-> severity(v)]
    IN IF Len(incomingEdges) = 0 THEN <<issue("missing-source", <<>>)>>
       ELSE IF Len(incomingEdges) > 1 THEN <<issue("multiple-sources", sourceNodeTypes)>>
       ELSE IF actualType \notin Range(expectedTypes)
            THEN <<issue("wrong-source-type", <<actualType>>)>>
       ELSE <<>>

validateDataPointSources(ns, es) ==
    LET dataPoints == SelectSeq(ns, LAMBDA n : n.type = "datapoint")
    IN Flatten(Map(dataPoints, LAMBDA dp : dataPointIssue(ns, es, dp)))

\* ---------------------------------------------------------------------
\* Transform I/O check

\* transformIssues with the second test chained to the first by else.
transformIssues_ElseIf(es, t) ==
    LET label == LabelOr(t, Untitled)
        transformType == IF t.dtype = Undefined THEN "formula" ELSE t.dtype
        incomingEdges ==
            SelectSeq(es, LAMBDA e : e.target = t.id /\ e.edgeType # "contains")
        outgoingEdges ==
            SelectSeq(es, LAMBDA e : e.source = t.id /\ e.edgeType # "contains")
        issue(v) == [violation |-> v, nodeId |-> t.id, label |-> label,
                     transformType |-> transformType, severity |-> severity(v)]
    IN IF Len(incomingEdges) = 0 THEN <<issue("no-inputs")>>
       ELSE IF Len(outgoingEdges) = 0 THEN <<issue("no-outputs")>> ELSE <<>>

transformIssues(es, t) ==
    LET label == LabelOr(t, Untitled)
        transformType == IF t.dtype = Undefined THEN "formula" ELSE t.dtype
        incomingEdges ==
            SelectSeq(es, LAMBDA e : e.target = t.id /\ e.edgeType # "contains")
        outgoingEdges ==
            SelectSeq(es, LAMBDA e : e.source = t.id /\ e.edgeType # "contains")
        issue(v) == [violation |-> v, nodeId |-> t.id, label |-> label,
                     transformType |-> transformType, severity |-> severity(v)]
    IN (IF Len(incomingEdges) = 0 THEN <<issue("no-inputs")>> ELSE <<>>)
       \o (IF Len(outgoingEdges) = 0 THEN <<issue("no-outputs")>> ELSE <<>>)

validateTransforms(ns, es) ==
    LET transforms ==
            SelectSeq(ns, LAMBDA n :
                /\ n.type = "transform"
                /\ (IF n.dtype = Undefined THEN "formula" ELSE n.dtype) # "workflow")
    IN Flatten(Map(transforms, LAMBDA t : transformIssues(es, t)))

\* ---------------------------------------------------------------------
\* Component reference check

\* The id of a node or edge as the string it is in the program.
IdStr(id) == <<ToString(id)>>

componentIssues(ns, es, component) ==
    LET nodeIdSet == {IdStr(n.id) : n \in Range(ns)}
        \* .filter(Boolean) drops absent and empty labels
        nodeLabelSet == {n.label : n \in {m \in Range(ns) :
                                          m.label # UndefinedLabel /\ m.label # EmptyLabel}}
        label == LabelOr(component, Untitled)
        captures == ListOr(component, "captures")
        displays == ListOr(component, "displays")
        invalid(ref) == ref \notin nodeIdSet /\ ref \notin nodeLabelSet
        invalidCaptures == SelectSeq(captures, invalid)
        invalidDisplays == SelectSeq(displays, invalid)
        connectedEdges ==
            SelectSeq(es, LAMBDA e : e.source = component.id \/ e.target = component.id)
        hasDataPointEdge ==
            \E i \in 1..Len(connectedEdges) :
                LET e == connectedEdges[i]
                    otherNodeId == IF e.source = component.id THEN e.target ELSE e.source
                IN TypeOfId(ns, otherNodeId) = "datapoint"
        issue(v, refs) == [violation |-> v, nodeId |-> component.id, label |-> label,
                           invalidRefs |-> refs, severity |-> severity(v)]
    IN (IF Len(invalidCaptures) > 0
        THEN <<issue("invalid-capture-reference", invalidCaptures)>> ELSE <<>>)
       \o (IF Len(invalidDisplays) > 0
           THEN <<issue("invalid-display-reference", invalidDisplays)>> ELSE <<>>)
       \o (IF ~hasDataPointEdge THEN <<issue("component-no-datapoints", <<>>)>> ELSE <<>>)

validateComponentReferences(ns, es) ==
    LET components == SelectSeq(ns, LAMBDA n : n.type = "component")
    IN Flatten(Map(components, LAMBDA c : componentIssues(ns, es, c)))

\* ---------------------------------------------------------------------
\* Table / datapoint type reconciliation

\* tableEdgeIssue without the exemption of a tbd column.
tableEdgeIssue_NoColumnTbd(ns, dp, edge) ==
    LET tables == SelectSeq(ns, LAMBDA n : n.type = "table")
        ti == FirstIndex(tables, LAMBDA t : t.id = edge.source)
        table == tables[ti]
        dpLabel == trim(toLowerCase(LabelOr(dp, EmptyLabel)))
        columns == ListOr(table, "columns")
        ci == FirstIndex(columns, LAMBDA col : trim(toLowerCase(col.name)) = dpLabel)
        matchingColumn == columns[ci]
    IN IF ti = 0 THEN <<>>
       ELSE IF /\ ci # 0
               /\ matchingColumn.type # dp.dtype
               /\ dp.dtype # "tbd"
            THEN <<[violation |-> "type-mismatch",
                    dataPointId |-> dp.id,
                    dataPointLabel |-> LabelOr(dp, Untitled),
                    dataPointType |-> IF dp.dtype = Undefined THEN "unknown" ELSE dp.dtype,
                    tableId |-> table.id,
                    tableLabel |-> LabelOr(table, Untitled),
                    columnName |-> matchingColumn.name,
                    columnType |-> matchingColumn.type,
                    severity |-> severity("type-mismatch")]>>
       ELSE <<>>

\* One edge of tableEdges: the issue for it, if any.
tableEdgeIssue(ns, dp, edge) ==
    LET tables == SelectSeq(ns, LAMBDA n : n.type = "table")
        ti == FirstIndex(tables, LAMBDA t : t.id = edge.source)
        table == tables[ti]
        dpLabel == trim(toLowerCase(LabelOr(dp, EmptyLabel)))
        columns == ListOr(table, "columns")
        ci == FirstIndex(columns, LAMBDA col : trim(toLowerCase(col.name)) = dpLabel)
        matchingColumn == columns[ci]
    IN IF ti = 0 THEN <<>>
       ELSE IF /\ ci # 0
               /\ matchingColumn.type # dp.dtype
               /\ dp.dtype # "tbd"
               /\ matchingColumn.type # "tbd"
            THEN <<[violation |-> "type-mismatch",
                    dataPointId |-> dp.id,
                    dataPointLabel |-> LabelOr(dp, Untitled),
                    dataPointType |-> IF dp.dtype = Undefined THEN "unknown" ELSE dp.dtype,
                    tableId |-> table.id,
                    tableLabel |-> LabelOr(table, Untitled),
                    columnName |-> matchingColumn.name,
                    columnType |-> matchingColumn.type,
                    severity |-> severity("type-mismatch")]>>
       ELSE <<>>

dataPointMismatches(ns, es, dp) ==
    IF dp.source # "retrieved" THEN <<>>
    ELSE LET tableEdges ==
                 SelectSeq(es, LAMBDA e :
                     e.target = dp.id /\ TypeOfId(ns, e.source) = "table")
         IN Flatten(Map(tableEdges, LAMBDA e : tableEdgeIssue(ns, dp, e)))

validateTableDataPointTypes(ns, es) ==
    LET dataPoints == SelectSeq(ns, LAMBDA n : n.type = "datapoint")
    IN Flatten(Map(dataPoints, LAMBDA dp : dataPointMismatches(ns, es, dp)))

\* ---------------------------------------------------------------------
\* Cycle detector

\* IsComputationEdge that lets every edge type into the adjacency.
IsComputationEdge_AnyType(e) == e.edgeType \in EdgeTypes

IsComputationEdge(e) == e.edgeType = "derives-from" \/ e.edgeType = "transforms"

\* adjacency.get(id) ?? []: the targets of the computation edges that leave
\* id, in edge order.  The map has an entry for every edge source, whether
\* or not a node of ns has that id.
adjacency(es, id) ==
    Map(SelectSeq(es, LAMBDA e : IsComputationEdge(e) /\ e.source = id),
        LAMBDA e : e.target)

RECURSIVE dfs(_, _, _, _)
RECURSIVE dfsNeighbors(_, _, _, _, _)
RECURSIVE dfsNeighbors_Revisit(_, _, _, _, _)

\* The state of the search before the first call of dfs. entries is not a
\* variable of the program: it logs the node ids in the order in which dfs
\* is called on them.
DfsStart == [visited |-> {}, recStack |-> {}, cycles |-> <<>>, entries |-> <<>>]

\* dfsNeighbors that searches from every neighbour that is not on the
\* recursion stack, visited or not.
dfsNeighbors_Revisit(es, nodeId, path, k, st) ==
    LET neighbors == adjacency(es, nodeId)
    IN IF k > Len(neighbors) THEN st
       ELSE LET neighbor == neighbors[k]
                st1 == IF neighbor \notin st.recStack
                         THEN dfs(es, neighbor, path, st)
                       ELSE LET cycleStart == IndexOf(path, neighbor)
                                cycle == SubSeq(path, cycleStart, Len(path))
                            IN [st EXCEPT !.cycles = Append(@, Append(cycle, neighbor))]
            IN dfsNeighbors_Revisit(es, nodeId, path, k + 1, st1)

\* The body of dfs: st is [visited, recStack, cycles, entries], path already
\* holds nodeId; k is the index of the neighbour the for loop is at.
dfsNeighbors(es, nodeId, path, k, st) ==
    LET neighbors == adjacency(es, nodeId)
    IN IF k > Len(neighbors) THEN st
       ELSE LET neighbor == neighbors[k]
                st1 == IF neighbor \notin st.visited
                         THEN dfs(es, neighbor, path, st)
                       ELSE IF neighbor \in st.recStack
                         THEN LET cycleStart == IndexOf(path, neighbor)
                                  cycle == SubSeq(path, cycleStart, Len(path))
                              IN [st EXCEPT !.cycles = Append(@, Append(cycle, neighbor))]
                       ELSE st
            IN dfsNeighbors(es, nodeId, path, k + 1, st1)

dfs(es, nodeId, path, st) ==
    LET entered == [st EXCEPT !.visited = @ \cup {nodeId},
                              !.recStack = @ \cup {nodeId},
                              !.entries = Append(@, nodeId)]
        after == dfsNeighbors(es, nodeId, Append(path, nodeId), 1, entered)
    IN [after EXCEPT !.recStack = @ \ {nodeId}]

RECURSIVE dfsFrom(_, _, _, _)
\* for (const node of nodes) if (!visited.has(node.id)) dfs(node.id, [])
dfsFrom(ns, es, i, st) ==
    IF i > Len(ns) THEN st
    ELSE dfsFrom(ns, es, i + 1,
                 IF ns[i].id \notin st.visited THEN dfs(es, ns[i].id, <<>>, st) ELSE st)

\* [...cycle].sort(): the ids in ascending order, repetitions kept
\* (SortSeq of TLC).
sortedIds(cycle) == SortSeq(cycle, LAMBDA a, b : a < b)

\* dedupCycles that never adds a key to seenCycles.
dedupCycles_NothingSeen(cycles, i, seenCycles) ==
    SelectSeq(cycles, LAMBDA cycle : sortedIds(cycle) \notin seenCycles)

RECURSIVE dedupCycles_SortInPlace(_, _, _)
\* dedupCycles that sorts the cycle itself and not a copy of it.
dedupCycles_SortInPlace(cycles, i, seenCycles) ==
    IF i > Len(cycles) THEN <<>>
    ELSE LET normalized == sortedIds(cycles[i])
         IN IF normalized \in seenCycles
            THEN dedupCycles_SortInPlace(cycles, i + 1, seenCycles)
            ELSE <<normalized>>
                     \o dedupCycles_SortInPlace(cycles, i + 1,
                                                seenCycles \cup {normalized})

\* dedupCycles that keeps every recorded cycle.
dedupCycles_KeepAll(cycles, i, seenCycles) == cycles

RECURSIVE dedupCycles(_, _, _)
\* The seenCycles loop: the cycles whose sorted id list was not seen before.
\* The program joins the sorted ids with '->'; the join of id lists is
\* one-to-one for ids that do not contain '->', so the list is the key.
dedupCycles(cycles, i, seenCycles) ==
    IF i > Len(cycles) THEN <<>>
    ELSE LET normalized == sortedIds(cycles[i])
         IN IF normalized \in seenCycles THEN dedupCycles(cycles, i + 1, seenCycles)
            ELSE <<cycles[i]>> \o dedupCycles(cycles, i + 1, seenCycles \cup {normalized})

LabelOfId(ns, id) ==
    LET i == FirstIndex(ns, LAMBDA n : n.id = id)
    IN IF i = 0 THEN UnknownLabel ELSE LabelOr(ns[i], UnknownLabel)

\* detectCircularDependencies whose seenCycles outlives the call: the
\* cycles of the previous report are taken as seen.
detectCircularDependencies_SeenCyclesKept(ns, es) ==
    LET st == dfsFrom(ns, es, 1, DfsStart)
        seenBefore == IF result.ran
                      THEN {sortedIds(result.circularDependencies[i].cycle) :
                               i \in 1..Len(result.circularDependencies)}
                      ELSE {}
    IN Map(dedupCycles(st.cycles, 1, seenBefore),
           LAMBDA cycle : [violation |-> "circular-dependency",
                           cycle |-> cycle,
                           labels |-> Map(cycle, LAMBDA id : LabelOfId(ns, id)),
                           severity |-> severity("circular-dependency")])

detectCircularDependencies(ns, es) ==
    LET st == dfsFrom(ns, es, 1, DfsStart)
    IN Map(dedupCycles(st.cycles, 1, {}),
           LAMBDA cycle : [violation |-> "circular-dependency",
                           cycle |-> cycle,
                           labels |-> Map(cycle, LAMBDA id : LabelOfId(ns, id)),
                           severity |-> severity("circular-dependency")])

\* ---------------------------------------------------------------------
\* Workflow structure check

\* workflowIssues that goes on to the next workflow after
\* insufficient-workflow-members.
workflowIssues_StopAtInsufficient(ns, es, n) ==
    LET members == ListOr(n, "members")
        issue(v, detail) == [violation |-> v, nodeId |-> n.id, label |-> n.label,
                             detail |-> detail, severity |-> severity(v)]
        \* the detail strings, as the values they are built from
        NoDetail == [text |-> "none", name |-> EmptyLabel, ref |-> NoId]
        outgoingEdges == SelectSeq(es, LAMBDA e : e.source = n.id)
        nodeIdSet == {m.id : m \in Range(ns)}
        dangling ==
            Map(SelectSeq(members, LAMBDA m :
                    HasTransformId(m) /\ m.transformId \notin nodeIdSet),
                LAMBDA m : issue("dangling-member-reference",
                                 [text |-> "references missing transform",
                                  name |-> m.name, ref |-> m.transformId]))
        isWorkflowId(id) ==
            LET i == FirstIndex(ns, LAMBDA mn : mn.id = id)
            IN i # 0 /\ ns[i].type = "transform" /\ ns[i].dtype = "workflow"
        nested ==
            Map(SelectSeq(members, LAMBDA m :
                    HasTransformId(m) /\ isWorkflowId(m.transformId)),
                LAMBDA m : issue("nested-workflow",
                                 [text |-> "is itself a workflow",
                                  name |-> m.name, ref |-> NoId]))
    IN IF Len(members) = 0 THEN <<issue("empty-workflow", NoDetail)>>
       ELSE IF Len(members) < 2
            THEN <<issue("insufficient-workflow-members",
                         [text |-> "has only", name |-> EmptyLabel,
                          ref |-> Len(members)])>>
       ELSE (IF Len(members) < 2
             THEN <<issue("insufficient-workflow-members",
                          [text |-> "has only", name |-> EmptyLabel,
                           ref |-> Len(members)])>>
             ELSE <<>>)
            \o (IF Len(outgoingEdges) = 0
                THEN <<issue("workflow-no-outputs",
                             [text |-> "no output connections", name |-> EmptyLabel,
                              ref |-> NoId])>>
                ELSE <<>>)
            \o dangling
            \o nested

\* workflowIssues that goes on with the other checks after empty-workflow.
workflowIssues_EmptyNotTerminal(ns, es, n) ==
    LET members == ListOr(n, "members")
        issue(v, detail) == [violation |-> v, nodeId |-> n.id, label |-> n.label,
                             detail |-> detail, severity |-> severity(v)]
        \* the detail strings, as the values they are built from
        NoDetail == [text |-> "none", name |-> EmptyLabel, ref |-> NoId]
        outgoingEdges == SelectSeq(es, LAMBDA e : e.source = n.id)
        nodeIdSet == {m.id : m \in Range(ns)}
        dangling ==
            Map(SelectSeq(members, LAMBDA m :
                    HasTransformId(m) /\ m.transformId \notin nodeIdSet),
                LAMBDA m : issue("dangling-member-reference",
                                 [text |-> "references missing transform",
                                  name |-> m.name, ref |-> m.transformId]))
        isWorkflowId(id) ==
            LET i == FirstIndex(ns, LAMBDA mn : mn.id = id)
            IN i # 0 /\ ns[i].type = "transform" /\ ns[i].dtype = "workflow"
        nested ==
            Map(SelectSeq(members, LAMBDA m :
                    HasTransformId(m) /\ isWorkflowId(m.transformId)),
                LAMBDA m : issue("nested-workflow",
                                 [text |-> "is itself a workflow",
                                  name |-> m.name, ref |-> NoId]))
    IN (IF Len(members) = 0 THEN <<issue("empty-workflow", NoDetail)>> ELSE <<>>)
       \o  (IF Len(members) = 1
             THEN <<issue("insufficient-workflow-members",
                          [text |-> "has only", name |-> EmptyLabel,
                           ref |-> Len(members)])>>
             ELSE <<>>)
            \o (IF Len(outgoingEdges) = 0
                THEN <<issue("workflow-no-outputs",
                             [text |-> "no output connections", name |-> EmptyLabel,
                              ref |-> NoId])>>
                ELSE <<>>)
            \o dangling
            \o nested

\* workflowIssues that does not take a contains edge as an output.
workflowIssues_ContainsNoOutput(ns, es, n) ==
    LET members == ListOr(n, "members")
        issue(v, detail) == [violation |-> v, nodeId |-> n.id, label |-> n.label,
                             detail |-> detail, severity |-> severity(v)]
        \* the detail strings, as the values they are built from
        NoDetail == [text |-> "none", name |-> EmptyLabel, ref |-> NoId]
        outgoingEdges == SelectSeq(es, LAMBDA e : e.source = n.id /\ e.edgeType # "contains")
        nodeIdSet == {m.id : m \in Range(ns)}
        dangling ==
            Map(SelectSeq(members, LAMBDA m :
                    HasTransformId(m) /\ m.transformId \notin nodeIdSet),
                LAMBDA m : issue("dangling-member-reference",
                                 [text |-> "references missing transform",
                                  name |-> m.name, ref |-> m.transformId]))
        isWorkflowId(id) ==
            LET i == FirstIndex(ns, LAMBDA mn : mn.id = id)
            IN i # 0 /\ ns[i].type = "transform" /\ ns[i].dtype = "workflow"
        nested ==
            Map(SelectSeq(members, LAMBDA m :
                    HasTransformId(m) /\ isWorkflowId(m.transformId)),
                LAMBDA m : issue("nested-workflow",
                                 [text |-> "is itself a workflow",
                                  name |-> m.name, ref |-> NoId]))
    IN IF Len(members) = 0 THEN <<issue("empty-workflow", NoDetail)>>
       ELSE (IF Len(members) < 2
             THEN <<issue("insufficient-workflow-members",
                          [text |-> "has only", name |-> EmptyLabel,
                           ref |-> Len(members)])>>
             ELSE <<>>)
            \o (IF Len(outgoingEdges) = 0
                THEN <<issue("workflow-no-outputs",
                             [text |-> "no output connections", name |-> EmptyLabel,
                              ref |-> NoId])>>
                ELSE <<>>)
            \o dangling
            \o nested

\* workflowIssues that takes a member that is any transform as nested.
workflowIssues_NestedAnyTransform(ns, es, n) ==
    LET members == ListOr(n, "members")
        issue(v, detail) == [violation |-> v, nodeId |-> n.id, label |-> n.label,
                             detail |-> detail, severity |-> severity(v)]
        \* the detail strings, as the values they are built from
        NoDetail == [text |-> "none", name |-> EmptyLabel, ref |-> NoId]
        outgoingEdges == SelectSeq(es, LAMBDA e : e.source = n.id)
        nodeIdSet == {m.id : m \in Range(ns)}
        dangling ==
            Map(SelectSeq(members, LAMBDA m :
                    HasTransformId(m) /\ m.transformId \notin nodeIdSet),
                LAMBDA m : issue("dangling-member-reference",
                                 [text |-> "references missing transform",
                                  name |-> m.name, ref |-> m.transformId]))
        isWorkflowId(id) ==
            LET i == FirstIndex(ns, LAMBDA mn : mn.id = id)
            IN i # 0 /\ ns[i].type = "transform"
        nested ==
            Map(SelectSeq(members, LAMBDA m :
                    HasTransformId(m) /\ isWorkflowId(m.transformId)),
                LAMBDA m : issue("nested-workflow",
                                 [text |-> "is itself a workflow",
                                  name |-> m.name, ref |-> NoId]))
    IN IF Len(members) = 0 THEN <<issue("empty-workflow", NoDetail)>>
       ELSE (IF Len(members) < 2
             THEN <<issue("insufficient-workflow-members",
                          [text |-> "has only", name |-> EmptyLabel,
                           ref |-> Len(members)])>>
             ELSE <<>>)
            \o (IF Len(outgoingEdges) = 0
                THEN <<issue("workflow-no-outputs",
                             [text |-> "no output connections", name |-> EmptyLabel,
                              ref |-> NoId])>>
                ELSE <<>>)
            \o dangling
            \o nested

workflowIssues(ns, es, n) ==
    LET members == ListOr(n, "members")
        issue(v, detail) == [violation |-> v, nodeId |-> n.id, label |-> n.label,
                             detail |-> detail, severity |-> severity(v)]
        \* the detail strings, as the values they are built from
        NoDetail == [text |-> "none", name |-> EmptyLabel, ref |-> NoId]
        outgoingEdges == SelectSeq(es, LAMBDA e : e.source = n.id)
        nodeIdSet == {m.id : m \in Range(ns)}
        dangling ==
            Map(SelectSeq(members, LAMBDA m :
                    HasTransformId(m) /\ m.transformId \notin nodeIdSet),
                LAMBDA m : issue("dangling-member-reference",
                                 [text |-> "references missing transform",
                                  name |-> m.name, ref |-> m.transformId]))
        isWorkflowId(id) ==
            LET i == FirstIndex(ns, LAMBDA mn : mn.id = id)
            IN i # 0 /\ ns[i].type = "transform" /\ ns[i].dtype = "workflow"
        nested ==
            Map(SelectSeq(members, LAMBDA m :
                    HasTransformId(m) /\ isWorkflowId(m.transformId)),
                LAMBDA m : issue("nested-workflow",
                                 [text |-> "is itself a workflow",
                                  name |-> m.name, ref |-> NoId]))
    IN IF Len(members) = 0 THEN <<issue("empty-workflow", NoDetail)>>
       ELSE (IF Len(members) < 2
             THEN <<issue("insufficient-workflow-members",
                          [text |-> "has only", name |-> EmptyLabel,
                           ref |-> Len(members)])>>
             ELSE <<>>)
            \o (IF Len(outgoingEdges) = 0
                THEN <<issue("workflow-no-outputs",
                             [text |-> "no output connections", name |-> EmptyLabel,
                              ref |-> NoId])>>
                ELSE <<>>)
            \o dangling
            \o nested

validateWorkflows(ns, es) ==
    LET workflows ==
            SelectSeq(ns, LAMBDA n : n.type = "transform" /\ n.dtype = "workflow")
    IN Flatten(Map(workflows, LAMBDA n : workflowIssues(ns, es, n)))

\* ---------------------------------------------------------------------
\* Orphan check

\* validateOrphans that does not skip image and screen nodes.
validateOrphans_AllTypes(ns, es) ==
    LET connectedIds == {e.source : e \in Range(es)} \cup {e.target : e \in Range(es)}
        candidates == SelectSeq(ns, LAMBDA n : n.id \notin connectedIds)
    IN Map(candidates,
           LAMBDA n : [violation |-> "orphan-node", nodeId |-> n.id,
                       label |-> LabelOr(n, Untitled), nodeType |-> n.type,
                       severity |-> severity("orphan-node")])

\* validateOrphans that leaves out the transforms, which the transform and
\* workflow checks already report.
validateOrphans_SkipsTransforms(ns, es) ==
    LET connectedIds == {e.source : e \in Range(es)} \cup {e.target : e \in Range(es)}
        candidates == SelectSeq(ns, LAMBDA n :
                          /\ ~(n.type = "image" \/ n.type = "screen")
                          /\ n.type # "transform"
                          /\ n.id \notin connectedIds)
    IN Map(candidates,
           LAMBDA n : [violation |-> "orphan-node", nodeId |-> n.id,
                       label |-> LabelOr(n, Untitled), nodeType |-> n.type,
                       severity |-> severity("orphan-node")])

\* validateOrphans that takes a node as connected only when an edge leaves it.
validateOrphans_OutgoingOnly(ns, es) ==
    LET connectedIds == {e.source : e \in Range(es)}
        candidates == SelectSeq(ns, LAMBDA n :
                          /\ ~(n.type = "image" \/ n.type = "screen")
                          /\ n.id \notin connectedIds)
    IN Map(candidates,
           LAMBDA n : [violation |-> "orphan-node", nodeId |-> n.id,
                       label |-> LabelOr(n, Untitled), nodeType |-> n.type,
                       severity |-> severity("orphan-node")])

validateOrphans(ns, es) ==
    LET connectedIds == {e.source : e \in Range(es)} \cup {e.target : e \in Range(es)}
        candidates == SelectSeq(ns, LAMBDA n :
                          /\ ~(n.type = "image" \/ n.type = "screen")
                          /\ n.id \notin connectedIds)
    IN Map(candidates,
           LAMBDA n : [violation |-> "orphan-node", nodeId |-> n.id,
                       label |-> LabelOr(n, Untitled), nodeType |-> n.type,
                       severity |-> severity("orphan-node")])

\* ---------------------------------------------------------------------
\* Placeholder (TBD) check

tbdIssuesOf(n) ==
    LET issue(v, name) == [violation |-> v, nodeId |-> n.id,
                           label |-> LabelOr(n, Untitled), detail |-> name,
                           severity |-> severity(v)]
    IN (IF n.type = "datapoint" /\ n.dtype = "tbd"
        THEN <<issue("datapoint-tbd-type", EmptyLabel)>> ELSE <<>>)
       \o (IF n.type = "table"
           THEN Map(SelectSeq(ListOr(n, "columns"), LAMBDA col : col.type = "tbd"),
                    LAMBDA col : issue("table-column-tbd", col.name))
           ELSE <<>>)

validateTbdIssues(ns) == Flatten(Map(ns, tbdIssuesOf))

\* ---------------------------------------------------------------------
\* Duplicate label check

\* groupKey that leaves the node type out of the key.
groupKey_LabelOnly(n) == <<"", toLowerCase(trim(LabelOr(n, EmptyLabel)))>>

\* The key of the groups map: `${n.type}:${label}`.  The node types hold no
\* ':', so the pair stands for the string.
groupKey(n) == <<n.type, toLowerCase(trim(LabelOr(n, EmptyLabel)))>>

\* The nodes that are put in a group: not image, not screen, label not empty.
IsGrouped(n) ==
    /\ ~(n.type = "image" \/ n.type = "screen")
    /\ groupKey(n)[2] # EmptyLabel

validateDuplicateLabels(ns) ==
    LET grouped == SelectSeq(ns, IsGrouped)
        \* Map iteration order: the keys by first insertion
        firsts == SelectSeq([i \in 1..Len(grouped) |-> i], LAMBDA i :
                      \A j \in 1..(i - 1) : groupKey(grouped[j]) # groupKey(grouped[i]))
        idsOf(key) == Map(SelectSeq(grouped, LAMBDA n : groupKey(n) = key),
                          LAMBDA n : n.id)
        groups == Map(firsts, LAMBDA i : [ids |-> idsOf(groupKey(grouped[i])),
                                           type |-> grouped[i].type])
        labelOfFirst(id) ==
            LET i == FirstIndex(ns, LAMBDA n : n.id = id)
            IN IF i = 0 THEN EmptyLabel ELSE LabelOr(ns[i], EmptyLabel)
    IN Map(SelectSeq(groups, LAMBDA g : Len(g.ids) >= 2),
           LAMBDA g : [violation |-> "duplicate-label", nodeIds |-> g.ids,
                       label |-> labelOfFirst(g.ids[1]), nodeType |-> g.type,
                       severity |-> severity("duplicate-label")])

\* ---------------------------------------------------------------------
\* Main handler

Line(k, s, n) == [k |-> k, s |-> s, n |-> n]

\* One category of the text: its heading and one line per issue (with the
\* sub-lines the category prints), nothing when the list is empty.
Section(title, issues, Sub(_)) ==
    IF Len(issues) = 0 THEN <<>>
    ELSE <<Line("blank", "", 0), Line("heading", title, Len(issues))>>
         \o Flatten(Map(issues, LAMBDA i : <<Line("issue", i.violation, 0)>> \o Sub(i)))

NoSub(i) == <<>>

\* NoProject that hands the handler an empty project when the lookup
\* finds none.
NoProject_EmptyProject == [found |-> TRUE, nodes |-> <<>>, edges |-> <<>>]

NoProject == [found |-> FALSE]

\* handleValidateProject that prints the categories in the order in which
\* allIssues gathers them (the workflow issues after the cycles).
handleValidateProject_AggregationOrder(project) ==
    IF ~project.found
    THEN [isError |-> TRUE, lines |-> <<Line("not-found", "", 0)>>, ran |-> FALSE]
    ELSE
    LET ns == project.nodes
        es == project.edges
        workflowMemberIds == collectWorkflowMemberIds(ns)
        nonMemberNodes == SelectSeq(ns, LAMBDA n : n.id \notin workflowMemberIds)
        dataPointSourceIssues == validateDataPointSources(nonMemberNodes, es)
        transformIssueList == validateTransforms(nonMemberNodes, es)
        componentReferenceIssues == validateComponentReferences(nonMemberNodes, es)
        tableDataPointMismatches == validateTableDataPointTypes(nonMemberNodes, es)
        circularDependencies == detectCircularDependencies(nonMemberNodes, es)
        workflowIssueList == validateWorkflows(ns, es)
        orphanIssues == validateOrphans(nonMemberNodes, es)
        tbdIssues == validateTbdIssues(nonMemberNodes)
        duplicateLabelIssues == validateDuplicateLabels(nonMemberNodes)
        allSeverities ==
            Flatten(<<Map(dataPointSourceIssues, LAMBDA i : i.severity),
                      Map(transformIssueList, LAMBDA i : i.severity),
                      Map(componentReferenceIssues, LAMBDA i : i.severity),
                      Map(tableDataPointMismatches, LAMBDA i : i.severity),
                      Map(circularDependencies, LAMBDA i : i.severity),
                      Map(workflowIssueList, LAMBDA i : i.severity),
                      Map(orphanIssues, LAMBDA i : i.severity),
                      Map(tbdIssues, LAMBDA i : i.severity),
                      Map(duplicateLabelIssues, LAMBDA i : i.severity)>>)
        totalIssues == Len(allSeverities)
        count(sev) == Len(SelectSeq(allSeverities, LAMBDA x : x = sev))
        title == <<Line("title", "", 0)>>
        body ==
            IF totalIssues = 0
            THEN <<Line("blank", "", 0), Line("ok", "no issues found", 0)>>
            ELSE <<Line("blank", "", 0), Line("summary", "", totalIssues)>>
                 \o Section("DataPoint Source Issues", dataPointSourceIssues,
                            LAMBDA i : <<Line("sub", "Expected", 0)>>
                                       \o (IF Len(i.actualSourceTypes) > 0
                                           THEN <<Line("sub", "Actual", 0)>> ELSE <<>>))
                 \o Section("Transform Issues", transformIssueList, NoSub)
                 \o Section("Component Reference Issues", componentReferenceIssues,
                            LAMBDA i : IF Len(i.invalidRefs) > 0
                                       THEN <<Line("sub", "Invalid IDs", 0)>> ELSE <<>>)
                 \o Section("Type Mismatches", tableDataPointMismatches, NoSub)
                 \o Section("Circular Dependencies", circularDependencies, NoSub)
                 \o Section("Workflow Issues", workflowIssueList, NoSub)
                 \o Section("Orphan Nodes", orphanIssues, NoSub)
                 \o Section("TBD Issues", tbdIssues, NoSub)
                 \o Section("Duplicate Labels", duplicateLabelIssues, NoSub)
    IN [isError |-> FALSE, lines |-> title \o body, ran |-> TRUE,
        dataPointSourceIssues |-> dataPointSourceIssues,
        transformIssues |-> transformIssueList,
        componentReferenceIssues |-> componentReferenceIssues,
        tableDataPointMismatches |-> tableDataPointMismatches,
        circularDependencies |-> circularDependencies,
        workflowIssues |-> workflowIssueList,
        orphanIssues |-> orphanIssues,
        tbdIssues |-> tbdIssues,
        duplicateLabelIssues |-> duplicateLabelIssues,
        counts |-> [total |-> totalIssues, error |-> count("error"),
                    warning |-> count("warning"), info |-> count("info")]]

\* The result of handleValidateProject for the stored project: the text
\* returned, the isError flag, and the issue lists the text is rendered from.
handleValidateProject(project) ==
    IF ~project.found
    THEN [isError |-> TRUE, lines |-> <<Line("not-found", "", 0)>>, ran |-> FALSE]
    ELSE
    LET ns == project.nodes
        es == project.edges
        workflowMemberIds == collectWorkflowMemberIds(ns)
        nonMemberNodes == SelectSeq(ns, LAMBDA n : n.id \notin workflowMemberIds)
        dataPointSourceIssues == validateDataPointSources(nonMemberNodes, es)
        transformIssueList == validateTransforms(nonMemberNodes, es)
        componentReferenceIssues == validateComponentReferences(nonMemberNodes, es)
        tableDataPointMismatches == validateTableDataPointTypes(nonMemberNodes, es)
        circularDependencies == detectCircularDependencies(nonMemberNodes, es)
        workflowIssueList == validateWorkflows(ns, es)
        orphanIssues == validateOrphans(nonMemberNodes, es)
        tbdIssues == validateTbdIssues(nonMemberNodes)
        duplicateLabelIssues == validateDuplicateLabels(nonMemberNodes)
        allSeverities ==
            Flatten(<<Map(dataPointSourceIssues, LAMBDA i : i.severity),
                      Map(transformIssueList, LAMBDA i : i.severity),
                      Map(componentReferenceIssues, LAMBDA i : i.severity),
                      Map(tableDataPointMismatches, LAMBDA i : i.severity),
                      Map(circularDependencies, LAMBDA i : i.severity),
                      Map(workflowIssueList, LAMBDA i : i.severity),
                      Map(orphanIssues, LAMBDA i : i.severity),
                      Map(tbdIssues, LAMBDA i : i.severity),
                      Map(duplicateLabelIssues, LAMBDA i : i.severity)>>)
        totalIssues == Len(allSeverities)
        count(sev) == Len(SelectSeq(allSeverities, LAMBDA x : x = sev))
        title == <<Line("title", "", 0)>>
        body ==
            IF totalIssues = 0
            THEN <<Line("blank", "", 0), Line("ok", "no issues found", 0)>>
            ELSE <<Line("blank", "", 0), Line("summary", "", totalIssues)>>
                 \o Section("DataPoint Source Issues", dataPointSourceIssues,
                            LAMBDA i : <<Line("sub", "Expected", 0)>>
                                       \o (IF Len(i.actualSourceTypes) > 0
                                           THEN <<Line("sub", "Actual", 0)>> ELSE <<>>))
                 \o Section("Transform Issues", transformIssueList, NoSub)
                 \o Section("Workflow Issues", workflowIssueList, NoSub)
                 \o Section("Component Reference Issues", componentReferenceIssues,
                            LAMBDA i : IF Len(i.invalidRefs) > 0
                                       THEN <<Line("sub", "Invalid IDs", 0)>> ELSE <<>>)
                 \o Section("Type Mismatches", tableDataPointMismatches, NoSub)
                 \o Section("Circular Dependencies", circularDependencies, NoSub)
                 \o Section("Orphan Nodes", orphanIssues, NoSub)
                 \o Section("TBD Issues", tbdIssues, NoSub)
                 \o Section("Duplicate Labels", duplicateLabelIssues, NoSub)
    IN [isError |-> FALSE, lines |-> title \o body, ran |-> TRUE,
        dataPointSourceIssues |-> dataPointSourceIssues,
        transformIssues |-> transformIssueList,
        componentReferenceIssues |-> componentReferenceIssues,
        tableDataPointMismatches |-> tableDataPointMismatches,
        circularDependencies |-> circularDependencies,
        workflowIssues |-> workflowIssueList,
        orphanIssues |-> orphanIssues,
        tbdIssues |-> tbdIssues,
        duplicateLabelIssues |-> duplicateLabelIssues,
        counts |-> [total |-> totalIssues, error |-> count("error"),
                    warning |-> count("warning"), info |-> count("info")]]

\* ---------------------------------------------------------------------
\* State machine

NoResult == [isError |-> FALSE, lines |-> <<>>, ran |-> FALSE]

\* The validate_project tool: reads the stored project, returns the report.
ValidateProject ==
    /\ result' = handleValidateProject(
                     IF found THEN [found |-> TRUE, nodes |-> nodes, edges |-> edges]
                     ELSE NoProject)
    /\ reports' = reports \cup {[found |-> found, nodes |-> nodes, edges |-> edges,
                                  report |-> result']}
    /\ UNCHANGED <<found, nodes, edges>>

Next == ValidateProject

\* ---------------------------------------------------------------------
\* Input graphs

AllAbsent == {"members", "columns", "captures", "displays"}

DataPointNode(id, label, dtype, source) ==
    Node(id, "datapoint", label, dtype, source, <<>>, <<>>, <<>>, <<>>, AllAbsent)

\* A node of the given type with the data its type carries and empty lists.
PlainNode(id, type, label) ==
    CASE type = "datapoint" -> DataPointNode(id, label, "string", "captured")
      [] type = "transform" ->
            Node(id, type, label, "formula", Undefined, <<>>, <<>>, <<>>, <<>>, AllAbsent)
      [] type = "table" ->
            Node(id, type, label, Undefined, Undefined, <<>>, <<>>, <<>>, <<>>,
                 AllAbsent \ {"columns"})
      [] type = "component" ->
            Node(id, type, label, Undefined, Undefined, <<>>, <<>>, <<>>, <<>>,
                 AllAbsent \ {"captures", "displays"})
      [] OTHER ->
            Node(id, type, label, Undefined, Undefined, <<>>, <<>>, <<>>, <<>>, AllAbsent)

WorkflowNode(id, label, members) ==
    Node(id, "transform", label, "workflow", Undefined, members, <<>>, <<>>, <<>>,
         AllAbsent \ {"members"})

Member(name, transformId) == [name |-> name, transformId |-> transformId]

\* The lists of length at most n over the set S.
SeqsUpTo(S, n) == UNION {[1..k -> S] : k \in 0..n}

\* The member lists of length at most n whose transformIds are drawn from ids.
MemberLists(ids, n) ==
    {Map(s, LAMBDA id : Member(<<"a">>, id)) : s \in SeqsUpTo(ids, n)}

\* Ids that no node of the input graphs has.
UnusedIds == {9}

Sources == {"captured", "retrieved", "inferred"}

\* Provenance inputs: a datapoint (id 1), one more node of any type (id 2),
\* possibly a workflow (id 3) whose members name any of them, and edges
\* into the datapoint.
ProvMaxEdges == 2
ProvMaxMembers == 1

ProvNodeLists ==
    {<<DataPointNode(1, <<"a">>, "string", src), PlainNode(2, t, <<"b">>)>> \o w :
        src \in Sources \cup {Undefined},
        t \in NodeTypes,
        w \in {<<>>} \cup {<<WorkflowNode(3, <<"w">>, ms)>> :
                             ms \in MemberLists({NoId, 1, 2}, ProvMaxMembers)}}

ProvEdgeLists ==
    SeqsUpTo({Edge(s, 1, et) : s \in {2, 3} \cup UnusedIds,
                               et \in {"contains", "flows-to", "derives-from"}},
             ProvMaxEdges)

InitProvenance ==
    /\ found = TRUE
    /\ nodes \in ProvNodeLists
    /\ edges \in ProvEdgeLists
    /\ result = NoResult
    /\ reports = {}

SpecProvenance == InitProvenance /\ [][Next]_vars

\* ---------------------------------------------------------------------
\* What the claims speak of, stated on the graph itself

NodeIds == {n.id : n \in Range(nodes)}

NodeWithId(id) == CHOOSE n \in Range(nodes) : n.id = id

\* The type of the node with this id in the supplied graph.
GraphTypeOf(id) == IF id \in NodeIds THEN NodeWithId(id).type ELSE "none"

\* id is the transformId of a member of some workflow transform.
IsWorkflowMember(id) ==
    \E n \in Range(nodes) :
        /\ n.type = "transform" /\ n.dtype = "workflow"
        /\ \E j \in 1..Len(n.members) : n.members[j].transformId = id

DataPoints == {n \in Range(nodes) : n.type = "datapoint"}

\* The positions in the edge list of the qualifying incoming edges of d:
\* every non-contains edge into d, and the contains edges into d whose
\* source is not a table.
Qualifying(d) ==
    {i \in 1..Len(edges) :
        /\ edges[i].target = d.id
        /\ (edges[i].edgeType = "contains" => GraphTypeOf(edges[i].source) # "table")}

\* The provenance issues of the report for node id with violation v.
ProvIssues(id, v) ==
    {i \in 1..Len(result.dataPointSourceIssues) :
        /\ result.dataPointSourceIssues[i].nodeId = id
        /\ result.dataPointSourceIssues[i].violation = v}

NoProvIssue(id) ==
    \A v \in {"missing-source", "wrong-source-type", "multiple-sources"} :
        ProvIssues(id, v) = {}

\* The datapoints the validation analyses: validate_project leaves the nodes
\* named as workflow members out of the standalone checks.
AnalysedDataPoints == {d \in DataPoints : ~IsWorkflowMember(d.id)}

DeclaredSource(d) == IF d.source = Undefined THEN "captured" ELSE d.source

ExpectedOrigins(source) ==
    CASE source = "captured" -> {"screen", "component"}
      [] source = "retrieved" -> {"table", "transform", "component"}
      [] source = "inferred" -> {"transform"}
      [] OTHER -> {}

\* ---------------------------------------------------------------------
\* Claims on the provenance check (checked under SpecProvenance)

\* C1: every datapoint with no qualifying incoming edge has exactly one
\* missing-source issue in the report and no wrong-source-type or
\* multiple-sources issue.  Stated for the datapoints the validation
\* analyses.
C1_MissingSource ==
    result.ran =>
        \A d \in AnalysedDataPoints :
            Qualifying(d) = {} =>
                /\ Cardinality(ProvIssues(d.id, "missing-source")) = 1
                /\ ProvIssues(d.id, "wrong-source-type") = {}
                /\ ProvIssues(d.id, "multiple-sources") = {}

\* C8: a datapoint with exactly one qualifying incoming edge has no
\* provenance issue when the type of the edge's origin is in the expected
\* set of its declared source, and exactly one wrong-source-type issue (and
\* no other provenance issue) otherwise, whichever node of the graph the
\* origin is.  Stated for the datapoints the validation analyses.
C8_SingleSource ==
    result.ran =>
        \A d \in AnalysedDataPoints :
            Cardinality(Qualifying(d)) = 1 =>
                LET e == edges[CHOOSE i \in Qualifying(d) : TRUE]
                IN IF GraphTypeOf(e.source) \in ExpectedOrigins(DeclaredSource(d))
                   THEN NoProvIssue(d.id)
                   ELSE /\ Cardinality(ProvIssues(d.id, "wrong-source-type")) = 1
                        /\ ProvIssues(d.id, "missing-source") = {}
                        /\ ProvIssues(d.id, "multiple-sources") = {}

\* The types of the origins of the qualifying edges of d, in edge order; an
\* edge whose source is no node of the graph has no origin type.
OriginTypes(d) ==
    Map(SelectSeq(edges, LAMBDA e :
            /\ e.target = d.id
            /\ (e.edgeType = "contains" => GraphTypeOf(e.source) # "table")
            /\ e.source \in NodeIds),
        LAMBDA e : GraphTypeOf(e.source))

\* C9: a datapoint with more than one qualifying incoming edge has exactly
\* one multiple-sources issue, no missing-source or wrong-source-type issue,
\* and the issue's actualSourceTypes lists the type of the origin of every
\* qualifying edge.  Stated for the datapoints the validation analyses.
C9_MultipleSources ==
    result.ran =>
        \A d \in AnalysedDataPoints :
            Cardinality(Qualifying(d)) > 1 =>
                /\ Cardinality(ProvIssues(d.id, "multiple-sources")) = 1
                /\ ProvIssues(d.id, "missing-source") = {}
                /\ ProvIssues(d.id, "wrong-source-type") = {}
                /\ \A i \in ProvIssues(d.id, "multiple-sources") :
                       result.dataPointSourceIssues[i].actualSourceTypes = OriginTypes(d)

\* The positions of the edges into d.
Incoming(d) == {i \in 1..Len(edges) : edges[i].target = d.id}

\* C10: a contains edge into a datapoint counts as a source edge exactly
\* when its source is not a table: a datapoint whose incoming edges are all
\* contains edges is reported missing-source exactly when every one of them
\* comes from a table, and a captured datapoint whose only incoming edge is
\* a contains edge from a screen has no provenance issue.  Stated for the
\* datapoints the validation analyses.
C10_ContainsEdges ==
    result.ran =>
        \A d \in AnalysedDataPoints :
            (Incoming(d) # {} /\ \A i \in Incoming(d) : edges[i].edgeType = "contains") =>
                /\ (ProvIssues(d.id, "missing-source") # {}
                      <=> \A i \in Incoming(d) : GraphTypeOf(edges[i].source) = "table")
                /\ (/\ DeclaredSource(d) = "captured"
                    /\ Cardinality(Incoming(d)) = 1
                    /\ \A i \in Incoming(d) : GraphTypeOf(edges[i].source) = "screen")
                   => NoProvIssue(d.id)

\* ---------------------------------------------------------------------
\* Transform inputs: a transform (id 1) of any logic type, one more node
\* (id 2), possibly a workflow (id 3) whose members name any of them, and
\* edges between the transform and the rest.
XfMaxEdges == 2
XfMaxMembers == 1

XfNodeLists ==
    {<<Node(1, "transform", <<"a">>, lt, Undefined, <<>>, <<>>, <<>>, <<>>, AllAbsent),
       PlainNode(2, t, <<"b">>)>> \o w :
        lt \in {"formula", "validation", "workflow", Undefined},
        t \in {"datapoint", "transform"},
        w \in {<<>>} \cup {<<WorkflowNode(3, <<"w">>, ms)>> :
                             ms \in MemberLists({NoId, 1, 2}, XfMaxMembers)}}

XfEdgeLists ==
    SeqsUpTo({Edge(p[1], p[2], et) :
                 p \in {<<1, 2>>, <<2, 1>>, <<1, 1>>} \cup {<<1, u>> : u \in UnusedIds},
                 et \in {"contains", "flows-to", Undefined}},
             XfMaxEdges)

InitTransform ==
    /\ found = TRUE
    /\ nodes \in XfNodeLists
    /\ edges \in XfEdgeLists
    /\ result = NoResult
    /\ reports = {}

SpecTransform == InitTransform /\ [][Next]_vars

\* The transforms whose data.type is not workflow.
PlainTransforms == {n \in Range(nodes) : n.type = "transform" /\ n.dtype # "workflow"}

NonContainsIn(n) ==
    {i \in 1..Len(edges) : edges[i].target = n.id /\ edges[i].edgeType # "contains"}

NonContainsOut(n) ==
    {i \in 1..Len(edges) : edges[i].source = n.id /\ edges[i].edgeType # "contains"}

\* The transform I/O issues of the report for node id with violation v.
XfIssues(id, v) ==
    {i \in 1..Len(result.transformIssues) :
        /\ result.transformIssues[i].nodeId = id
        /\ result.transformIssues[i].violation = v}

\* n is reported no-inputs exactly when it has no non-contains incoming
\* edge and no-outputs exactly when it has no non-contains outgoing edge,
\* each at most once.
TransformIOExact(n) ==
    /\ Cardinality(XfIssues(n.id, "no-inputs")) = (IF NonContainsIn(n) = {} THEN 1 ELSE 0)
    /\ Cardinality(XfIssues(n.id, "no-outputs")) = (IF NonContainsOut(n) = {} THEN 1 ELSE 0)

\* C2 as stated: for any transform whose data.type is not workflow, the
\* report has a no-inputs issue for it iff it has no non-contains incoming
\* edge and a no-outputs issue iff it has no non-contains outgoing edge.
C2_AnyTransform ==
    result.ran => \A n \in PlainTransforms : TransformIOExact(n)

\* C2, amended: the same for any transform whose data.type is not workflow
\* and that is not named as a member of a workflow.
C2_TransformIO ==
    result.ran =>
        \A n \in PlainTransforms : ~IsWorkflowMember(n.id) => TransformIOExact(n)

\* C2 witness: a report with both issues for a transform that is not a
\* workflow member, and another transform with neither.
C2_Witness ==
    /\ result.ran
    /\ \E n \in PlainTransforms :
          /\ ~IsWorkflowMember(n.id)
          /\ XfIssues(n.id, "no-inputs") # {} /\ XfIssues(n.id, "no-outputs") # {}
    /\ \E n \in PlainTransforms :
          /\ ~IsWorkflowMember(n.id)
          /\ XfIssues(n.id, "no-inputs") = {} /\ XfIssues(n.id, "no-outputs") = {}

\* ---------------------------------------------------------------------
\* Cycle inputs: three transforms (ids 1..3) in any order of the node list,
\* possibly followed by a workflow (id 4) whose members name some of them,
\* and computation edges among the three.
CycMaxEdges == 3

\* The orders of the ids of S.
Permutations3(S) ==
    {p \in [1..Cardinality(S) -> S] : \A i, j \in 1..Cardinality(S) : p[i] = p[j] => i = j}

CycNodeLists ==
    {Map(p, LAMBDA id : PlainNode(id, "transform", <<"a">>)) \o w :
        p \in Permutations3({1, 2, 3}),
        w \in {<<>>} \cup
              {<<WorkflowNode(4, <<"w">>, Map(ms, LAMBDA id : Member(<<"a">>, id)))>> :
                   ms \in {<<1>>, <<1, 2>>}}}

CycEdgeKinds ==
    {Edge(p[1], p[2], "derives-from") :
        p \in {q \in {1, 2, 3} \X {1, 2, 3} : q[1] # q[2]}}
    \cup {Edge(1, 1, "derives-from"), Edge(2, 1, "transforms")}

CycEdgeLists == SeqsUpTo(CycEdgeKinds, CycMaxEdges)

InitCycle ==
    /\ found = TRUE
    /\ nodes \in CycNodeLists
    /\ edges \in CycEdgeLists
    /\ result = NoResult
    /\ reports = {}

SpecCycle == InitCycle /\ [][Next]_vars

\* The derives-from / transforms edges of the graph, as pairs of ids.
ComputationPairs ==
    {<<edges[i].source, edges[i].target>> :
        i \in {j \in 1..Len(edges) :
                  edges[j].edgeType \in {"derives-from", "transforms"}}}

EdgeIds == {e.source : e \in Range(edges)} \cup {e.target : e \in Range(edges)}

\* The simple directed cycles of the computation edges: lists of distinct
\* ids, smallest id first, each joined to the next and the last to the
\* first.
SimpleCycles ==
    {c \in UNION {[1..k -> EdgeIds] : k \in 1..Cardinality(EdgeIds)} :
        /\ \A i, j \in 1..Len(c) : c[i] = c[j] => i = j
        /\ \A i \in 2..Len(c) : c[1] < c[i]
        /\ \A i \in 1..Len(c) : <<c[i], c[(i % Len(c)) + 1]>> \in ComputationPairs}

\* b can be reached from a along computation edges (in zero or more steps).
Reaches(a, b) ==
    LET step(S) == S \cup {p[2] : p \in {q \in ComputationPairs : q[1] \in S}}
        R1 == step({a})
        R2 == step(R1)
        R3 == step(R2)
        R4 == step(R3)
    IN b \in R4

\* The nodes the cycle search starts from: the nodes that are not named as
\* workflow members.
AnalysedIds == {id \in NodeIds : ~IsWorkflowMember(id)}

\* The report has exactly one circular-dependency issue, on the ids of c.
OneCycleIssueOn(c) ==
    /\ Len(result.circularDependencies) = 1
    /\ Range(result.circularDependencies[1].cycle) = Range(c)

\* C3 as stated: when the computation edges form exactly one simple
\* directed cycle, the report has exactly one circular-dependency issue and
\* its node set is the node set of the cycle, whatever the node order.
C3_OneCycle ==
    (result.ran /\ Cardinality(SimpleCycles) = 1) =>
        \A c \in SimpleCycles : OneCycleIssueOn(c)

\* C3, amended: the same, provided some node that is not a workflow member
\* lies on the cycle or reaches it along computation edges; when there is
\* no such node the report has no circular-dependency issue.
C3_OneCycleAnalysed ==
    (result.ran /\ Cardinality(SimpleCycles) = 1) =>
        \A c \in SimpleCycles :
            IF \E a \in AnalysedIds : Reaches(a, c[1])
            THEN OneCycleIssueOn(c)
            ELSE Len(result.circularDependencies) = 0

\* C3 witness: a report on a graph with exactly one simple cycle, of two
\* or more nodes, recorded from a node list that does not start at the
\* smallest id.
C3_Witness ==
    /\ result.ran
    /\ Cardinality(SimpleCycles) = 1
    /\ \E c \in SimpleCycles : Len(c) >= 2 /\ OneCycleIssueOn(c)
    /\ nodes[1].id # 1

\* ---------------------------------------------------------------------
\* Type reconciliation inputs: a datapoint (id 1), a table (id 2) with a
\* list of columns, another datapoint (id 3), possibly a workflow (id 4)
\* that names the datapoint or the table as a member, and edges into the
\* datapoint.
TyMaxColumns == 2

DataTypes == {"string", "number", "tbd"}

TyColumns ==
    {[name |-> n, type |-> t] : n \in {<<"a">>, <<"B", " ">>}, t \in DataTypes}

TyNodeLists ==
    {<<DataPointNode(1, l, dt, src),
       Node(2, "table", <<"t">>, Undefined, Undefined, <<>>, cols, <<>>, <<>>,
            AllAbsent \ {"columns"}),
       DataPointNode(3, <<"a">>, "string", "retrieved")>> \o w :
        l \in {<<"A">>, <<" ", "b">>},
        dt \in DataTypes \cup {Undefined},
        src \in {"retrieved", "captured"},
        cols \in SeqsUpTo(TyColumns, TyMaxColumns),
        w \in {<<>>, <<WorkflowNode(4, <<"w">>, <<Member(<<"a">>, 1)>>)>>,
               <<WorkflowNode(4, <<"w">>, <<Member(<<"a">>, 2)>>)>>}}

TyEdgeLists ==
    {<<>>,
     <<Edge(2, 1, "flows-to")>>,
     <<Edge(2, 1, "contains")>>,
     <<Edge(3, 1, "derives-from")>>,
     <<Edge(2, 1, "flows-to"), Edge(2, 1, "contains")>>,
     <<Edge(3, 1, "derives-from"), Edge(2, 1, "flows-to")>>}

InitTypes ==
    /\ found = TRUE
    /\ nodes \in TyNodeLists
    /\ edges \in TyEdgeLists
    /\ result = NoResult
    /\ reports = {}

SpecTypes == InitTypes /\ [][Next]_vars

Tables == {n \in Range(nodes) : n.type = "table"}

\* A name or label after trimming and lower-casing.
Normalised(s) == toLowerCase(trim(s))

\* The positions of the columns of t whose name equals the label of d after
\* trimming and lower-casing.
MatchingColumns(t, d) ==
    {i \in 1..Len(t.columns) : Normalised(t.columns[i].name) = Normalised(d.label)}

\* The column type and the datapoint type differ and neither is tbd.
Mismatch(col, d) == col.type # d.dtype /\ col.type # "tbd" /\ d.dtype # "tbd"

\* The positions of the edges from t into d.
EdgesFromTo(t, d) ==
    {i \in 1..Len(edges) : edges[i].source = t.id /\ edges[i].target = d.id}

\* The type-mismatch issues of the report for datapoint d and table t.
MismatchIssues(d, t) ==
    {i \in 1..Len(result.tableDataPointMismatches) :
        /\ result.tableDataPointMismatches[i].dataPointId = d.id
        /\ result.tableDataPointMismatches[i].tableId = t.id}

WfMaxMembers == 2
WfMaxEdges == 2

WfNodeLists ==
    {<<w1, PlainNode(2, t, <<"b">>)>> \o w3 :
        w1 \in {WorkflowNode(1, <<"a">>, ms) :
                    ms \in MemberLists({NoId, 2, 3} \cup UnusedIds, WfMaxMembers)}
               \cup {Node(1, "transform", <<"a">>, "workflow", Undefined,
                          <<>>, <<>>, <<>>, <<>>, AllAbsent)},
        t \in {"transform", "datapoint"},
        w3 \in {<<>>} \cup {<<WorkflowNode(3, <<"w">>, ms)>> :
                              ms \in {<<>>, <<Member(<<"a">>, 1)>>,
                                      <<Member(<<"a">>, 2), Member(<<"b">>, 1)>>}}}

WfEdgeLists ==
    SeqsUpTo({Edge(1, 2, "flows-to"), Edge(1, 2, "contains"), Edge(2, 1, "flows-to")},
             WfMaxEdges)

InitWorkflow ==
    /\ found = TRUE
    /\ nodes \in WfNodeLists
    /\ edges \in WfEdgeLists
    /\ result = NoResult
    /\ reports = {}

SpecWorkflow == InitWorkflow /\ [][Next]_vars

\* The workflow transforms with a non-empty members list.
WorkflowsWithMembers ==
    {n \in Range(nodes) :
        /\ n.type = "transform" /\ n.dtype = "workflow"
        /\ "members" \notin n.absent /\ Len(n.members) > 0}

\* The workflow issues of the report for node id with violation v, in
\* report order.
WfIssues(id, v) ==
    SelectSeq(result.workflowIssues, LAMBDA i : i.nodeId = id /\ i.violation = v)

\* The members of n whose transformId is set and is the id of no node.
DanglingMembers(n) ==
    SelectSeq(n.members, LAMBDA m : m.transformId # NoId /\ m.transformId \notin NodeIds)

\* C5: a workflow with a non-empty members list has one
\* insufficient-workflow-members issue exactly when it has fewer than 2
\* members, and one dangling-member-reference issue for each member whose
\* transformId is set and is the id of no node, naming that member; both
\* kinds are reported together.
C5_WorkflowMembers ==
    result.ran =>
        \A n \in WorkflowsWithMembers :
            /\ Len(WfIssues(n.id, "insufficient-workflow-members"))
                   = (IF Len(n.members) < 2 THEN 1 ELSE 0)
            /\ Len(WfIssues(n.id, "dangling-member-reference"))
                   = Len(DanglingMembers(n))
            /\ \A j \in 1..Len(DanglingMembers(n)) :
                   LET d == WfIssues(n.id, "dangling-member-reference")[j].detail
                   IN d.name = DanglingMembers(n)[j].name
                      /\ d.ref = DanglingMembers(n)[j].transformId

\* C5 witness: a workflow with a single member that names a missing node
\* has both issues in the report.
C5_Witness ==
    /\ result.ran
    /\ \E n \in WorkflowsWithMembers :
          /\ Len(n.members) = 1
          /\ Len(DanglingMembers(n)) = 1
          /\ Len(WfIssues(n.id, "insufficient-workflow-members")) = 1
          /\ Len(WfIssues(n.id, "dangling-member-reference")) = 1

\* ---------------------------------------------------------------------
\* Duplicate label inputs: up to DupMaxNodes labelled nodes (ids 1, 2, ...)
\* of several types, possibly followed by a workflow (id 8) that names
\* node 1 as a member; no edges.
DupMaxNodes == 4

DupKinds ==
    {<<"datapoint", l>> : l \in {<<"A">>, <<"a", " ">>, <<" ">>, UndefinedLabel}}
    \cup {<<"component", l>> : l \in {<<"A">>, <<" ", "a">>}}
    \cup {<<"screen", <<"A">>>>}

DupNodeLists ==
    {Map([i \in 1..Len(ks) |-> <<i, ks[i]>>],
         LAMBDA x : PlainNode(x[1], x[2][1], x[2][2])) \o w :
        ks \in SeqsUpTo(DupKinds, DupMaxNodes),
        w \in {<<>>, <<WorkflowNode(8, <<"w">>, <<Member(<<"a">>, 1)>>)>>}}

InitDuplicates ==
    /\ found = TRUE
    /\ nodes \in DupNodeLists
    /\ edges = <<>>
    /\ result = NoResult
    /\ reports = {}

SpecDuplicates == InitDuplicates /\ [][Next]_vars

\* The nodes that take part in duplicate-label detection: not named as a
\* workflow member, not an image, not a screen.
LabelCandidates ==
    {n \in Range(nodes) :
        ~IsWorkflowMember(n.id) /\ n.type # "image" /\ n.type # "screen"}

NormalisedLabel(n) == Normalised(LabelOr(n, EmptyLabel))

\* The ids of the candidates with the type and the normalised label of n.
LabelGroup(n) ==
    {m.id : m \in {c \in LabelCandidates :
                      c.type = n.type /\ NormalisedLabel(c) = NormalisedLabel(n)}}

\* The duplicate-label issues of the report that list exactly the ids S,
\* each once.
DupIssuesOn(S) ==
    {i \in 1..Len(result.duplicateLabelIssues) :
        /\ Range(result.duplicateLabelIssues[i].nodeIds) = S
        /\ Len(result.duplicateLabelIssues[i].nodeIds) = Cardinality(S)}

\* No issue mixes groups and no id is listed in two issues.
DupIssuesDisjoint ==
    \A i, j \in 1..Len(result.duplicateLabelIssues) :
        i # j => Range(result.duplicateLabelIssues[i].nodeIds)
                   \cap Range(result.duplicateLabelIssues[j].nodeIds) = {}

\* C6 as stated: every group of two or more candidates with the same type
\* and normalised label yields exactly one duplicate-label issue listing
\* all ids of the group; every issue lists such a group; no id is listed
\* twice.
C6_AnyGroup ==
    result.ran =>
        /\ \A n \in LabelCandidates :
               Cardinality(LabelGroup(n)) >= 2
                   => Cardinality(DupIssuesOn(LabelGroup(n))) = 1
        /\ \A i \in 1..Len(result.duplicateLabelIssues) :
               \E n \in LabelCandidates :
                   /\ Cardinality(LabelGroup(n)) >= 2
                   /\ i \in DupIssuesOn(LabelGroup(n))
        /\ DupIssuesDisjoint

\* C6, amended: the same for the groups whose normalised label is not
\* empty; nodes whose label is absent, empty or blank are in no group.
C6_LabelledGroups ==
    result.ran =>
        /\ \A n \in LabelCandidates :
               (Cardinality(LabelGroup(n)) >= 2 /\ NormalisedLabel(n) # EmptyLabel)
                   => Cardinality(DupIssuesOn(LabelGroup(n))) = 1
        /\ \A i \in 1..Len(result.duplicateLabelIssues) :
               \E n \in LabelCandidates :
                   /\ Cardinality(LabelGroup(n)) >= 2
                   /\ NormalisedLabel(n) # EmptyLabel
                   /\ i \in DupIssuesOn(LabelGroup(n))
        /\ DupIssuesDisjoint

\* C6 witness: an issue for two nodes whose labels differ as written, while
\* a node of another type with the same normalised label is in no issue.
C6_Witness ==
    /\ result.ran
    /\ \E n, m, o \in LabelCandidates :
          /\ n.id # m.id /\ n.type = m.type /\ n.label # m.label
          /\ DupIssuesOn(LabelGroup(n)) # {} /\ m.id \in LabelGroup(n)
          /\ o.type # n.type /\ NormalisedLabel(o) = NormalisedLabel(n)
          /\ \A i \in 1..Len(result.duplicateLabelIssues) :
                 o.id \notin Range(result.duplicateLabelIssues[i].nodeIds)

\* ---------------------------------------------------------------------
\* Small graphs: up to SmMaxNodes nodes (ids 1, 2, ...) of every type, a
\* workflow among them with or without members, and up to SmMaxEdges edges
\* over the ids 1 and 2, whether or not a node has them.
SmMaxNodes == 2
SmMaxEdges == 1

SmNodeKinds == NodeTypes \cup {"workflow", "workflow-of-1"}

SmNode(id, kind) ==
    CASE kind = "workflow" -> WorkflowNode(id, <<"w">>, <<>>)
      [] kind = "workflow-of-1" -> WorkflowNode(id, <<"w">>, <<Member(<<"a">>, 1)>>)
      [] OTHER -> PlainNode(id, kind, <<"a">>)

SmNodeLists ==
    {[i \in 1..Len(ks) |-> SmNode(i, ks[i])] : ks \in SeqsUpTo(SmNodeKinds, SmMaxNodes)}

SmEdgeLists ==
    SeqsUpTo({Edge(a, b, et) : a \in {1, 2}, b \in {1, 2},
                               et \in {"flows-to", "derives-from", "contains"}},
             SmMaxEdges)

InitSmall ==
    /\ found = TRUE
    /\ nodes \in SmNodeLists
    /\ edges \in SmEdgeLists
    /\ result = NoResult
    /\ reports = {}

SpecSmall == InitSmall /\ [][Next]_vars

\* The report counts no issue and its text is the title followed by the
\* 'no issues found' line.
NoIssuesReport ==
    /\ result.counts.total = 0
    /\ result.lines = <<Line("title", "", 0), Line("blank", "", 0),
                        Line("ok", "no issues found", 0)>>

\* C7 as stated: a graph with zero nodes, and likewise a graph with zero
\* edges whatever its nodes, has a report with total 0 and the 'no issues
\* found' text.
C7_EmptyGraph ==
    (result.ran /\ (Len(nodes) = 0 \/ Len(edges) = 0)) => NoIssuesReport

\* C7, amended: a graph with zero nodes, whatever its edges, has a report
\* with total 0 and the 'no issues found' text; a graph with zero edges has
\* that report exactly when all its nodes are image or screen nodes.
C7_EmptyOrVisualOnly ==
    result.ran =>
        /\ Len(nodes) = 0 => NoIssuesReport
        /\ Len(edges) = 0 =>
               (NoIssuesReport <=> \A n \in Range(nodes) : n.type \in {"image", "screen"})

\* C7 witness: the 'no issues found' report for a graph with nodes and no
\* edge.
C7_Witness ==
    result.ran /\ Len(edges) = 0 /\ Len(nodes) > 0 /\ NoIssuesReport

\* ---------------------------------------------------------------------
\* Component reference inputs: a component (id 1) with captures and
\* displays, one more node of any type (id 2) with label "b" or the empty
\* label, possibly a workflow (id 3) whose member names one of them, and
\* at most one edge into the component.  A reference is the id of node 2,
\* its label, the label in another case, or the empty string.
CompMaxRefs == 2

ComponentNode(id, label, captures, displays) ==
    Node(id, "component", label, Undefined, Undefined, <<>>, <<>>, captures, displays,
         AllAbsent \ {"captures", "displays"})

CompRefs == {IdStr(2), <<"b">>, <<"B">>}

CompWorkflows ==
    {<<>>} \cup {<<WorkflowNode(3, <<"w">>, ms)>> : ms \in MemberLists({NoId, 1, 2}, 1)}

CompRefNodeLists ==
    {<<ComponentNode(1, <<"c">>, cs, ds), PlainNode(2, t, l)>> \o w :
        cs \in SeqsUpTo(CompRefs, CompMaxRefs),
        ds \in SeqsUpTo({IdStr(2), <<"B">>, EmptyLabel}, 1),
        t \in NodeTypes,
        l \in {<<"b">>, EmptyLabel},
        w \in CompWorkflows}

InitComponentRefs ==
    /\ found = TRUE
    /\ nodes \in CompRefNodeLists
    /\ edges \in {<<>>, <<Edge(2, 1, "flows-to")>>}
    /\ result = NoResult
    /\ reports = {}

SpecComponentRefs == InitComponentRefs /\ [][Next]_vars

\* The components of the supplied graph that the checks analyse (those no
\* workflow names as a member).
AnalysedComponents ==
    {n \in Range(nodes) : n.type = "component" /\ ~IsWorkflowMember(n.id)}

\* The component issues of the report for node id with violation v.
CompIssues(id, v) ==
    SelectSeq(result.componentReferenceIssues,
              LAMBDA i : i.nodeId = id /\ i.violation = v)

\* ref is the id or the exact label of some node of the supplied graph.
Resolves(ref) ==
    \E n \in Range(nodes) :
        \/ IdStr(n.id) = ref
        \/ n.label # UndefinedLabel /\ n.label = ref

\* The entries of the list f of component c that resolve to no node.
Offending(c, f) == SelectSeq(ListOr(c, f), LAMBDA ref : ~Resolves(ref))

\* The issues with violation v on component c are: none when no entry of
\* its list f offends, else one issue that lists the offending entries.
RefIssueExact(c, f, v) ==
    /\ Len(CompIssues(c.id, v)) = (IF Offending(c, f) = <<>> THEN 0 ELSE 1)
    /\ \A i \in 1..Len(CompIssues(c.id, v)) :
           CompIssues(c.id, v)[i].invalidRefs = Offending(c, f)

\* C11: for each analysed component, the entries of captures (displays)
\* listed in its invalid-capture-reference (invalid-display-reference)
\* issue are exactly those that equal neither the id nor the exact label
\* of any node of the supplied graph; there is at most one issue of each
\* kind and it lists all offending entries.
C11_InvalidReferences ==
    result.ran =>
        \A c \in AnalysedComponents :
            /\ RefIssueExact(c, "captures", "invalid-capture-reference")
            /\ RefIssueExact(c, "displays", "invalid-display-reference")

\* ---------------------------------------------------------------------
\* Component edge inputs: a component (id 1) without references, one more
\* node of any type (id 2), possibly a workflow (id 3) whose member names
\* one of them, and up to CompMaxEdges edges between the component and
\* node 2, or to an id no node has.
CompMaxEdges == 2

CompEdgeNodeLists ==
    {<<PlainNode(1, "component", <<"c">>), PlainNode(2, t, <<"b">>)>> \o w :
        t \in NodeTypes, w \in CompWorkflows}

CompEdgeLists ==
    SeqsUpTo({Edge(1, 2, et) : et \in {"flows-to", "contains", "derives-from"}}
             \cup {Edge(2, 1, et) : et \in {"flows-to", "contains", "validates"}}
             \cup {Edge(1, u, "flows-to") : u \in UnusedIds},
             CompMaxEdges)

InitComponentEdges ==
    /\ found = TRUE
    /\ nodes \in CompEdgeNodeLists
    /\ edges \in CompEdgeLists
    /\ result = NoResult
    /\ reports = {}

SpecComponentEdges == InitComponentEdges /\ [][Next]_vars

\* Some edge of the graph, in either direction and of any type, connects
\* node id to a datapoint of the supplied graph.
ConnectedToDataPoint(id) ==
    \E i \in 1..Len(edges) :
        \/ edges[i].source = id /\ GraphTypeOf(edges[i].target) = "datapoint"
        \/ edges[i].target = id /\ GraphTypeOf(edges[i].source) = "datapoint"

\* C12: an analysed component gets a component-no-datapoints issue (one)
\* if and only if no edge of the graph, in either direction and of any
\* type, connects it to a node of type datapoint.
C12_NoDataPoints ==
    result.ran =>
        \A c \in AnalysedComponents :
            Len(CompIssues(c.id, "component-no-datapoints"))
                = (IF ConnectedToDataPoint(c.id) THEN 0 ELSE 1)

\* ---------------------------------------------------------------------
\* Orphans (checked on the small graphs)

\* The orphan-node issues of the report for node id.
OrphanIssues(id) ==
    SelectSeq(result.orphanIssues, LAMBDA i : i.nodeId = id /\ i.violation = "orphan-node")

\* No edge of the graph, of any type, has id as source or target.
NoIncidentEdge(id) ==
    \A i \in 1..Len(edges) : edges[i].source # id /\ edges[i].target # id

\* C13: a non-image, non-screen node that is not a workflow member gets an
\* orphan-node issue (one) if and only if no edge of the graph has it as
\* source or target; image nodes, screen nodes and workflow members never
\* get an orphan-node issue.
C13_Orphans ==
    result.ran =>
        \A n \in Range(nodes) :
            Len(OrphanIssues(n.id))
                = (IF /\ n.type \notin {"image", "screen"}
                      /\ ~IsWorkflowMember(n.id)
                      /\ NoIncidentEdge(n.id)
                   THEN 1 ELSE 0)

\* C13 witness: a report with an orphan-node issue for an unconnected node
\* and none for an unconnected workflow member of a reportable type.
C13_Witness ==
    /\ result.ran
    /\ \E n \in Range(nodes) : Len(OrphanIssues(n.id)) = 1
    /\ \E n \in Range(nodes) :
           /\ n.type \notin {"image", "screen"}
           /\ IsWorkflowMember(n.id)
           /\ NoIncidentEdge(n.id)
           /\ Len(OrphanIssues(n.id)) = 0

\* ---------------------------------------------------------------------
\* Mixed-cycle inputs: three transforms (ids 1, 2, 3), possibly a workflow
\* (id 4) that names transform 1 as a member, and up to MixMaxEdges edges
\* of computation and of other types, so that cycles close with and
\* without an edge the detector ignores.
MixMaxEdges == 3

MixNodeLists ==
    {<<PlainNode(1, "transform", <<"a">>), PlainNode(2, "transform", <<"b">>),
       PlainNode(3, "transform", <<"c">>)>> \o w :
        w \in {<<>>, <<WorkflowNode(4, <<"w">>, <<Member(<<"a">>, 1)>>)>>}}

MixEdgeKinds ==
    {Edge(p[1], p[2], et) :
        p \in {<<1, 2>>, <<2, 1>>, <<2, 3>>, <<3, 1>>},
        et \in {"derives-from", "flows-to"}}
    \cup {Edge(1, 2, "contains"), Edge(2, 1, "validates"), Edge(1, 2, "transforms"),
          Edge(3, 3, "derives-from"), Edge(3, 3, "flows-to")}

MixEdgeLists == SeqsUpTo(MixEdgeKinds, MixMaxEdges)

InitMixedCycle ==
    /\ found = TRUE
    /\ nodes \in MixNodeLists
    /\ edges \in MixEdgeLists
    /\ result = NoResult
    /\ reports = {}

SpecMixedCycle == InitMixedCycle /\ [][Next]_vars

\* The edges of the graph of every type, as pairs of ids.
AllPairs == {<<edges[i].source, edges[i].target>> : i \in 1..Len(edges)}

\* The closed walks of the graph over edges of every type: lists of
\* distinct ids, each joined to the next and the last to the first, that
\* cannot be closed with computation edges alone (some step has no
\* derives-from / transforms edge).
MixedCycles ==
    {c \in UNION {[1..k -> EdgeIds] : k \in 1..Cardinality(EdgeIds)} :
        /\ \A i, j \in 1..Len(c) : c[i] = c[j] => i = j
        /\ \A i \in 1..Len(c) : <<c[i], c[(i % Len(c)) + 1]>> \in AllPairs
        /\ \E i \in 1..Len(c) : <<c[i], c[(i % Len(c)) + 1]>> \notin ComputationPairs}

\* The issue lists the ids of c in the cycle's order, from any of its
\* nodes, the first repeated at the end.
ReportsCycle(issue, c) ==
    /\ Len(issue.cycle) = Len(c) + 1
    /\ \E r \in 0..(Len(c) - 1) :
           \A i \in 1..(Len(c) + 1) :
               issue.cycle[i] = c[((i - 1 + r) % Len(c)) + 1]

\* C14: only derives-from and transforms edges take part in cycle
\* detection: every step of every reported cycle is a derives-from or
\* transforms edge of the graph, so a directed cycle that uses a flows-to,
\* validates or contains edge and cannot be closed with computation edges
\* alone is reported by no circular-dependency issue.
C14_ComputationEdgesOnly ==
    result.ran =>
        \A k \in 1..Len(result.circularDependencies) :
            LET issue == result.circularDependencies[k]
            IN /\ issue.violation = "circular-dependency"
               /\ \A i \in 1..(Len(issue.cycle) - 1) :
                      <<issue.cycle[i], issue.cycle[i + 1]>> \in ComputationPairs
               /\ \A c \in MixedCycles : ~ReportsCycle(issue, c)

\* C14 witness: a report with a circular-dependency issue on a graph that
\* also has a cycle of two or more nodes closed only by an edge of another
\* type.
C14_Witness ==
    /\ result.ran
    /\ Len(result.circularDependencies) >= 1
    /\ \E c \in MixedCycles : Len(c) >= 2

\* ---------------------------------------------------------------------
\* Workflow structure (checked on the workflow inputs)

WorkflowViolations ==
    {"empty-workflow", "insufficient-workflow-members", "workflow-no-outputs",
     "dangling-member-reference", "nested-workflow"}

\* The workflow transforms whose members list is absent or empty.
WorkflowsWithoutMembers ==
    {n \in Range(nodes) :
        /\ n.type = "transform" /\ n.dtype = "workflow"
        /\ ("members" \in n.absent \/ Len(n.members) = 0)}

\* The workflow issues of the report for node id, of every kind.
AllWfIssues(id) == SelectSeq(result.workflowIssues, LAMBDA i : i.nodeId = id)

\* C15: a workflow transform whose members list is absent or empty gets
\* exactly one workflow issue, empty-workflow, and no issue of the other
\* four workflow kinds, whatever its edges are.
C15_EmptyWorkflow ==
    result.ran =>
        \A n \in WorkflowsWithoutMembers :
            /\ Len(AllWfIssues(n.id)) = 1
            /\ Len(WfIssues(n.id, "empty-workflow")) = 1
            /\ \A v \in WorkflowViolations \ {"empty-workflow"} :
                   Len(WfIssues(n.id, v)) = 0

\* C15 witness: a report with the single empty-workflow issue for a
\* workflow whose members are absent and that no edge leaves, and for a
\* workflow whose members list is empty.
C15_Witness ==
    /\ result.ran
    /\ \E n \in WorkflowsWithoutMembers :
           /\ "members" \in n.absent
           /\ \A i \in 1..Len(edges) : edges[i].source # n.id
           /\ Len(WfIssues(n.id, "empty-workflow")) = 1
    /\ \E n \in WorkflowsWithoutMembers :
           /\ "members" \notin n.absent
           /\ Len(WfIssues(n.id, "empty-workflow")) = 1

\* C16: a workflow transform with at least one member gets a
\* workflow-no-outputs issue (one) if and only if the graph has no edge of
\* any type, contains edges included, whose source is that workflow.
C16_WorkflowNoOutputs ==
    result.ran =>
        \A n \in WorkflowsWithMembers :
            Len(WfIssues(n.id, "workflow-no-outputs"))
                = (IF \E i \in 1..Len(edges) : edges[i].source = n.id THEN 0 ELSE 1)

\* C16 witness: a report without workflow-no-outputs for a workflow whose
\* only outgoing edges are contains edges, and with that issue for another
\* workflow that has members.
C16_Witness ==
    /\ result.ran
    /\ \E n \in WorkflowsWithMembers :
           /\ \E i \in 1..Len(edges) : edges[i].source = n.id
           /\ \A i \in 1..Len(edges) :
                  edges[i].source = n.id => edges[i].edgeType = "contains"
           /\ Len(WfIssues(n.id, "workflow-no-outputs")) = 0
    /\ \E n \in WorkflowsWithMembers :
           Len(WfIssues(n.id, "workflow-no-outputs")) = 1

\* The members of n whose transformId is the id of a workflow transform of
\* the full node set.
NestedMembers(n) ==
    SelectSeq(n.members,
              LAMBDA m : /\ m.transformId # NoId
                         /\ m.transformId \in NodeIds
                         /\ NodeWithId(m.transformId).type = "transform"
                         /\ NodeWithId(m.transformId).dtype = "workflow")

\* C17: for a workflow transform with at least one member, the number of
\* nested-workflow issues reported for it is the number of its members
\* whose transformId is the id of a workflow transform of the full node
\* set, each issue naming its member; a member that resolves to a formula
\* transform gives no nested-workflow issue.
C17_NestedWorkflows ==
    result.ran =>
        \A n \in WorkflowsWithMembers :
            /\ Len(WfIssues(n.id, "nested-workflow")) = Len(NestedMembers(n))
            /\ \A j \in 1..Len(NestedMembers(n)) :
                   WfIssues(n.id, "nested-workflow")[j].detail.name
                       = NestedMembers(n)[j].name

\* C17 witness: a report with two nested-workflow issues for one workflow,
\* and a workflow with a member that is a formula transform and no
\* nested-workflow issue more than its workflow members.
C17_Witness ==
    /\ result.ran
    /\ \E n \in WorkflowsWithMembers : Len(WfIssues(n.id, "nested-workflow")) = 2
    /\ \E n \in WorkflowsWithMembers :
           /\ \E j \in 1..Len(n.members) :
                  /\ n.members[j].transformId \in NodeIds
                  /\ NodeWithId(n.members[j].transformId).type = "transform"
                  /\ NodeWithId(n.members[j].transformId).dtype = "formula"
           /\ Len(WfIssues(n.id, "nested-workflow")) = 1

\* ---------------------------------------------------------------------
\* Severities and counts (checked on the small graphs)

ErrorViolations ==
    {"missing-source", "no-inputs", "no-outputs", "insufficient-workflow-members",
     "workflow-no-outputs", "component-no-datapoints", "circular-dependency",
     "orphan-node"}

\* The nine issue lists of the report.
IssueLists ==
    <<result.dataPointSourceIssues, result.transformIssues,
      result.componentReferenceIssues, result.tableDataPointMismatches,
      result.circularDependencies, result.workflowIssues, result.orphanIssues,
      result.tbdIssues, result.duplicateLabelIssues>>

\* The violation kind and the severity of every issue of the report.
ReportedKinds ==
    Flatten([k \in 1..Len(IssueLists) |->
                [i \in 1..Len(IssueLists[k]) |->
                    [violation |-> IssueLists[k][i].violation,
                     severity |-> IssueLists[k][i].severity]]])

\* C18: every issue of the report carries the severity of its violation
\* kind, error for the eight error kinds and warning for every other kind
\* the checks emit, and the counts satisfy total = error + warning + info =
\* the number of issues the nine checks produced, each count being the
\* number of issues of that severity.
C18_SeveritiesAndCounts ==
    result.ran =>
        /\ \A i \in 1..Len(ReportedKinds) :
               ReportedKinds[i].severity
                   = (IF ReportedKinds[i].violation \in ErrorViolations
                      THEN "error" ELSE "warning")
        /\ result.counts.total = Len(ReportedKinds)
        /\ result.counts.total
               = result.counts.error + result.counts.warning + result.counts.info
        /\ \A s \in {"error", "warning", "info"} :
               result.counts[s]
                   = Len(SelectSeq(ReportedKinds, LAMBDA i : i.severity = s))

\* C18 witness: a report that counts both errors and warnings, with issues
\* from three or more of the checks.
C18_Witness ==
    /\ result.ran
    /\ result.counts.error >= 1
    /\ result.counts.warning >= 1
    /\ Cardinality({k \in 1..Len(IssueLists) : Len(IssueLists[k]) > 0}) >= 3

\* ---------------------------------------------------------------------
\* Report inputs: any selection of seven nodes (two datapoints with the
\* same label, one of type tbd and one retrieved; a table with a number
\* column of that label; a formula transform; a component with an
\* unresolvable capture; a workflow with one member; a screen) and any
\* selection of five edges, in a fixed order, so that each of the nine
\* categories of the report is empty for some graphs and not for others,
\* all nine together included.
RepNodePool ==
    <<DataPointNode(1, <<"a">>, "tbd", "captured"),
      DataPointNode(2, <<"a">>, "string", "retrieved"),
      Node(3, "table", <<"t">>, Undefined, Undefined, <<>>,
           <<[name |-> <<"a">>, type |-> "number"]>>, <<>>, <<>>,
           AllAbsent \ {"columns"}),
      PlainNode(4, "transform", <<"f">>),
      ComponentNode(5, <<"c">>, <<<<"z">>>>, <<>>),
      WorkflowNode(6, <<"w">>, <<Member(<<"a">>, 7)>>),
      PlainNode(7, "screen", <<"s">>)>>

RepEdgePool ==
    <<Edge(3, 2, "contains"), Edge(1, 1, "derives-from"), Edge(5, 1, "flows-to"),
      Edge(1, 4, "derives-from"), Edge(6, 2, "flows-to")>>

RepNodeLists ==
    {SelectSeq(RepNodePool, LAMBDA n : n.id \in S) :
        S \in SUBSET {n.id : n \in Range(RepNodePool)}}

RepEdgeLists ==
    {SelectSeq(RepEdgePool, LAMBDA e : e \in S) : S \in SUBSET Range(RepEdgePool)}

InitReport ==
    /\ found = TRUE
    /\ nodes \in RepNodeLists
    /\ edges \in RepEdgeLists
    /\ result = NoResult
    /\ reports = {}

SpecReport == InitReport /\ [][Next]_vars

\* The categories of the report in the order of the claim: the heading of
\* each and the number of issues its check produced.
Categories ==
    <<[title |-> "DataPoint Source Issues", n |-> Len(result.dataPointSourceIssues)],
      [title |-> "Transform Issues", n |-> Len(result.transformIssues)],
      [title |-> "Workflow Issues", n |-> Len(result.workflowIssues)],
      [title |-> "Component Reference Issues", n |-> Len(result.componentReferenceIssues)],
      [title |-> "Type Mismatches", n |-> Len(result.tableDataPointMismatches)],
      [title |-> "Circular Dependencies", n |-> Len(result.circularDependencies)],
      [title |-> "Orphan Nodes", n |-> Len(result.orphanIssues)],
      [title |-> "TBD Issues", n |-> Len(result.tbdIssues)],
      [title |-> "Duplicate Labels", n |-> Len(result.duplicateLabelIssues)]>>

\* The headings of the text, in the order in which they are printed, each
\* with the count it shows.
Headings ==
    LET hs == SelectSeq(result.lines, LAMBDA l : l.k = "heading")
    IN [i \in 1..Len(hs) |-> [title |-> hs[i].s, n |-> hs[i].n]]

\* C19: the headings of the report are the categories that have an issue,
\* in the fixed order provenance, transform I/O, workflow, component
\* reference, type mismatch, cycles, orphans, TBD, duplicates; a category
\* with no issue is left out and the others keep their relative order.
C19_CategoryOrder ==
    result.ran => Headings = SelectSeq(Categories, LAMBDA c : c.n > 0)

\* C19 witness: a report that prints the workflow category before the
\* cycles, with the component category between them left out.
C19_Witness ==
    /\ result.ran
    /\ \E i \in 1..(Len(Headings) - 1) :
           /\ Headings[i].title = "Workflow Issues"
           /\ Headings[i + 1].title = "Circular Dependencies"
    /\ Len(result.componentReferenceIssues) = 0
    /\ Len(Headings) >= 4

\* ---------------------------------------------------------------------
\* Lookup inputs: the project id names no project, or names a project
\* whose canvas is one of the small graphs.
InitLookup ==
    /\ found \in BOOLEAN
    /\ nodes \in (IF found THEN SmNodeLists ELSE {<<>>})
    /\ edges \in (IF found THEN SmEdgeLists ELSE {<<>>})
    /\ result = NoResult
    /\ reports = {}

SpecLookup == InitLookup /\ [][Next]_vars

\* validate_project has returned.
Returned == result # NoResult

\* The fields of a result that carry what the rule checks produced.
ReportFields ==
    {"dataPointSourceIssues", "transformIssues", "componentReferenceIssues",
     "tableDataPointMismatches", "circularDependencies", "workflowIssues",
     "orphanIssues", "tbdIssues", "duplicateLabelIssues", "counts"}

\* C20: when the project lookup returns no project, validation returns the
\* not-found error result and runs none of the rule checks; in every other
\* case it runs them and returns a report that is not an error result.
C20_NotFound ==
    Returned =>
        IF ~found
        THEN /\ result.isError
             /\ result.lines = <<Line("not-found", "", 0)>>
             /\ ~result.ran
             /\ ReportFields \cap DOMAIN result = {}
        ELSE /\ ~result.isError
             /\ result.ran
             /\ ReportFields \subseteq DOMAIN result
             /\ Len(result.lines) >= 3
             /\ result.lines[1].k = "title"
             /\ \A i \in 1..Len(result.lines) : result.lines[i].k # "not-found"

\* C20 witness: the not-found error result has been returned.
C20_Witness ==
    ~found /\ Returned /\ result.isError

\* ---------------------------------------------------------------------
\* Inputs with absent fields: up to two nodes (ids 1, 2), each either a
\* node of any type without a data bag (no label, source, type, captures,
\* displays, members or columns) or a node with data (an inferred
\* datapoint, a workflow that names node 1, a table with a column), and up
\* to AbsMaxEdges edges, without data or of type contains.
AbsMaxEdges == 2

\* A node whose data bag is absent.
BareNode(id, type) ==
    Node(id, type, UndefinedLabel, Undefined, Undefined, <<>>, <<>>, <<>>, <<>>, AllAbsent)

AbsNodeKinds == NodeTypes \cup {"inferred", "workflow-of-1", "table-of-1"}

AbsNode(id, kind) ==
    CASE kind = "inferred" -> DataPointNode(id, <<"a">>, "string", "inferred")
      [] kind = "workflow-of-1" -> WorkflowNode(id, <<"w">>, <<Member(<<"a">>, 1)>>)
      [] kind = "table-of-1" ->
            Node(id, "table", <<"t">>, Undefined, Undefined, <<>>,
                 <<[name |-> <<"a">>, type |-> "tbd"]>>, <<>>, <<>>,
                 AllAbsent \ {"columns"})
      [] OTHER -> BareNode(id, kind)

AbsNodeLists ==
    {[i \in 1..Len(ks) |-> AbsNode(i, ks[i])] : ks \in SeqsUpTo(AbsNodeKinds, 2)}

AbsEdgeLists ==
    SeqsUpTo({Edge(p[1], p[2], Undefined) :
                  p \in {<<1, 2>>, <<2, 1>>, <<1, 1>>} \cup {<<u, 1>> : u \in UnusedIds}}
             \cup {Edge(2, 1, "contains")},
             AbsMaxEdges)

InitAbsent ==
    /\ found = TRUE
    /\ nodes \in AbsNodeLists
    /\ edges \in AbsEdgeLists
    /\ result = NoResult
    /\ reports = {}

SpecAbsent == InitAbsent /\ [][Next]_vars

\* The analysed datapoints whose data has no source.
SourcelessDataPoints == {d \in AnalysedDataPoints : d.source = Undefined}

\* The positions of the edges into node id.
EdgesInto(id) == {i \in 1..Len(edges) : edges[i].target = id}

\* C21: on graphs whose nodes lack a data bag or some of its fields and
\* whose edges lack data, validation ends with a full report (every issue
\* list, the counts and the text, no error result); a datapoint without a
\* source is judged as captured: its issues carry source captured and the
\* expected types screen and component, and with a single incoming edge
\* from an analysed node it has no issue exactly when that node is a screen
\* or a component.
C21_TotalOnAbsentFields ==
    result.ran =>
        /\ ~result.isError
        /\ ReportFields \subseteq DOMAIN result
        /\ result.lines[1].k = "title"
        /\ result.counts.total = Len(ReportedKinds)
        /\ \A d \in SourcelessDataPoints :
               /\ \A i \in 1..Len(result.dataPointSourceIssues) :
                      LET issue == result.dataPointSourceIssues[i]
                      IN issue.nodeId = d.id =>
                             /\ issue.source = "captured"
                             /\ issue.expectedSourceTypes = <<"screen", "component">>
               /\ \A i \in EdgesInto(d.id) :
                      (/\ EdgesInto(d.id) = {i}
                       /\ edges[i].edgeType # "contains"
                       /\ edges[i].source \in AnalysedIds)
                      => (NoProvIssue(d.id)
                             <=> GraphTypeOf(edges[i].source) \in {"screen", "component"})

\* C21 witness: a report on a graph of two nodes without data bags, a
\* datapoint and a transform, joined by an edge without data: the
\* datapoint has a wrong-source-type issue judged as captured and the
\* transform is judged as a formula without inputs.
C21_Witness ==
    /\ result.ran
    /\ Len(nodes) = 2
    /\ \A n \in Range(nodes) : n = BareNode(n.id, n.type)
    /\ \E d \in SourcelessDataPoints :
           /\ \E i \in EdgesInto(d.id) :
                  /\ EdgesInto(d.id) = {i}
                  /\ edges[i].edgeType = Undefined
                  /\ GraphTypeOf(edges[i].source) = "transform"
           /\ ProvIssues(d.id, "wrong-source-type") # {}
    /\ \E i \in 1..Len(result.transformIssues) :
           /\ result.transformIssues[i].violation = "no-inputs"
           /\ result.transformIssues[i].transformType = "formula"

\* ---------------------------------------------------------------------
\* Sequences of validations: the caller asks about one project after
\* another.  The projects are an unknown id and the graphs made of one of
\* three node lists and one of three edge lists (no edge, a cycle of two
\* transforms, a self-loop next to an edge that leaves the workflow).
SeqNodeLists ==
    {<<PlainNode(1, "transform", <<"a">>), PlainNode(2, "transform", <<"b">>)>>,
     <<PlainNode(2, "transform", <<"b">>), PlainNode(1, "transform", <<"a">>),
       WorkflowNode(3, <<"w">>, <<Member(<<"a">>, 1)>>)>>,
     <<DataPointNode(1, <<"a">>, "tbd", "inferred"), PlainNode(2, "component", <<"a">>)>>}

SeqEdgeLists ==
    {<<>>,
     <<Edge(1, 2, "derives-from"), Edge(2, 1, "transforms")>>,
     <<Edge(2, 2, "derives-from"), Edge(3, 1, "flows-to")>>}

SeqProjects ==
    {[found |-> TRUE, nodes |-> ns, edges |-> es] :
        ns \in SeqNodeLists, es \in SeqEdgeLists}
    \cup {[found |-> FALSE, nodes |-> <<>>, edges |-> <<>>]}

InitSequence ==
    /\ \E p \in SeqProjects : found = p.found /\ nodes = p.nodes /\ edges = p.edges
    /\ result = NoResult
    /\ reports = {}

\* The next call of the tool names another project.
OtherProject ==
    /\ \E p \in SeqProjects :
           /\ <<p.found, p.nodes, p.edges>> # <<found, nodes, edges>>
           /\ found' = p.found /\ nodes' = p.nodes /\ edges' = p.edges
    /\ UNCHANGED <<result, reports>>

NextSequence == ValidateProject \/ OtherProject

SpecSequence == InitSequence /\ [][NextSequence]_vars

AnalysedCycleExists ==
    \E c \in SimpleCycles : \A i \in 1..Len(c) : c[i] \in AnalysedIds

\* The list of ids closes on itself and each of its steps is a
\* derives-from or transforms edge of the graph, in that direction.
RealCycle(cycle) ==
    /\ Len(cycle) >= 2
    /\ cycle[1] = cycle[Len(cycle)]
    /\ \A i \in 1..(Len(cycle) - 1) : <<cycle[i], cycle[i + 1]>> \in ComputationPairs

\* C23: a circular-dependency issue is reported if and only if the
\* derives-from / transforms edges among the analysed nodes contain a
\* directed cycle, and every reported cycle is a real one (it ends where
\* it starts and each step is a computation edge in that direction).
C23_CycleIffReal ==
    result.ran =>
        /\ (Len(result.circularDependencies) >= 1) <=> AnalysedCycleExists
        /\ \A k \in 1..Len(result.circularDependencies) :
               RealCycle(result.circularDependencies[k].cycle)

\* C24: after a validation run no two circular-dependency issues of the
\* report have the same set of node ids, also when parallel edges or
\* several start points of the search close the same cycle more than once.
C24_DistinctNodeSets ==
    result.ran =>
        \A i, j \in 1..Len(result.circularDependencies) :
            i # j => Range(result.circularDependencies[i].cycle)
                         # Range(result.circularDependencies[j].cycle)

\* C24 witness: a report with a single issue for a cycle of two nodes that
\* two parallel edges close, found from a node list that does not start
\* at the smallest id.
C24_Witness ==
    /\ result.ran
    /\ Len(result.circularDependencies) = 1
    /\ Cardinality(Range(result.circularDependencies[1].cycle)) = 2
    /\ \E i, j \in 1..Len(edges) :
           /\ i < j
           /\ edges[i] = edges[j]
           /\ edges[i].source \in Range(result.circularDependencies[1].cycle)
           /\ edges[i].target \in Range(result.circularDependencies[1].cycle)
           /\ edges[i].source # edges[i].target
    /\ nodes[1].id # 1

\* ---------------------------------------------------------------------
\* Member inputs: two nodes (ids 1, 2) with the same label, each a tbd
\* datapoint, a formula or validation transform, a component with an
\* unresolvable capture, a table with a tbd column or a screen; a workflow
\* (id 3) that
\* names node 1, or nodes 1 and 2, or nothing; possibly a second workflow
\* (id 4) that names the first; and any selection of three edges.
MemKinds ==
    {"datapoint-tbd", "transform", "validation", "component-ref", "table-tbd", "screen"}

MemNode(id, kind) ==
    CASE kind = "datapoint-tbd" -> DataPointNode(id, <<"a">>, "tbd", "retrieved")
      [] kind = "validation" ->
            Node(id, "transform", <<"a">>, "validation", Undefined, <<>>, <<>>, <<>>,
                 <<>>, AllAbsent)
      [] kind = "component-ref" -> ComponentNode(id, <<"a">>, <<<<"z">>>>, <<>>)
      [] kind = "table-tbd" ->
            Node(id, "table", <<"a">>, Undefined, Undefined, <<>>,
                 <<[name |-> <<"a">>, type |-> "tbd"]>>, <<>>, <<>>,
                 AllAbsent \ {"columns"})
      [] OTHER -> PlainNode(id, kind, <<"a">>)

MemNodeLists ==
    {<<MemNode(1, k1), MemNode(2, k2), WorkflowNode(3, <<"w">>, ms)>> \o w4 :
        k1 \in MemKinds, k2 \in MemKinds,
        ms \in {<<>>, <<Member(<<"a">>, 1)>>,
                <<Member(<<"a">>, 1), Member(<<"b">>, 2)>>},
        w4 \in {<<>>, <<WorkflowNode(4, <<"v">>, <<Member(<<"a">>, 3)>>)>>,
                <<WorkflowNode(4, <<"v">>, <<Member(<<"a">>, 3), Member(<<"b">>, 4)>>)>>}}

MemEdgePool ==
    <<Edge(2, 1, "flows-to"), Edge(1, 2, "derives-from"), Edge(3, 1, "contains")>>

MemEdgeLists ==
    {SelectSeq(MemEdgePool, LAMBDA e : e \in S) : S \in SUBSET Range(MemEdgePool)}

InitMembers ==
    /\ found = TRUE
    /\ nodes \in MemNodeLists
    /\ edges \in MemEdgeLists
    /\ result = NoResult
    /\ reports = {}

SpecMembers == InitMembers /\ [][Next]_vars

\* The ids that the issues of the six member-blind checks, and of the type
\* reconciliation, name as their subject.
SubjectIds ==
    {result.dataPointSourceIssues[i].nodeId : i \in 1..Len(result.dataPointSourceIssues)}
    \cup {result.transformIssues[i].nodeId : i \in 1..Len(result.transformIssues)}
    \cup {result.componentReferenceIssues[i].nodeId :
             i \in 1..Len(result.componentReferenceIssues)}
    \cup {result.tableDataPointMismatches[i].dataPointId :
             i \in 1..Len(result.tableDataPointMismatches)}
    \cup {result.orphanIssues[i].nodeId : i \in 1..Len(result.orphanIssues)}
    \cup {result.tbdIssues[i].nodeId : i \in 1..Len(result.tbdIssues)}
    \cup UNION {Range(result.duplicateLabelIssues[i].nodeIds) :
                   i \in 1..Len(result.duplicateLabelIssues)}

\* The workflow transforms that another workflow, or they themselves, name
\* as a member.
MemberWorkflows ==
    {n \in Range(nodes) :
        n.type = "transform" /\ n.dtype = "workflow" /\ IsWorkflowMember(n.id)}

\* C25: no node whose id is the transformId of a member of a workflow
\* transform is the subject of a provenance, transform I/O, component
\* reference, orphan, TBD or duplicate-label issue, whatever its type; the
\* workflow check still runs on the full node set: a workflow that is a
\* member gets its own workflow issues (empty-workflow, or
\* insufficient-workflow-members with fewer than 2 members and
\* workflow-no-outputs without an outgoing edge).
C25_MembersExcluded ==
    result.ran =>
        /\ \A id \in NodeIds : IsWorkflowMember(id) => id \notin SubjectIds
        /\ \A n \in MemberWorkflows :
               IF Len(n.members) = 0
               THEN Len(WfIssues(n.id, "empty-workflow")) = 1
               ELSE /\ Len(WfIssues(n.id, "insufficient-workflow-members"))
                          = (IF Len(n.members) < 2 THEN 1 ELSE 0)
                    /\ Len(WfIssues(n.id, "workflow-no-outputs"))
                          = (IF \E i \in 1..Len(edges) : edges[i].source = n.id
                             THEN 0 ELSE 1)

\* C25 witness: a report in which an unconnected tbd datapoint that is a
\* member is the subject of no issue while its unconnected twin is the
\* subject of some, and a workflow that is a member has workflow issues.
C25_Witness ==
    /\ result.ran
    /\ \E m, o \in Range(nodes) :
           /\ m.type = "datapoint" /\ o.type = "datapoint"
           /\ IsWorkflowMember(m.id) /\ ~IsWorkflowMember(o.id)
           /\ NoIncidentEdge(m.id) /\ NoIncidentEdge(o.id)
           /\ m.id \notin SubjectIds
           /\ o.id \in SubjectIds
    /\ \E n \in MemberWorkflows : Len(AllWfIssues(n.id)) >= 1

\* C26: cycle detection runs on the graph with workflow members removed:
\* no circular-dependency issue lists the id of a workflow member in its
\* cycle, even when computation edges lead from analysed nodes through a
\* member and back.
C26_NoMemberInCycle ==
    result.ran =>
        \A k \in 1..Len(result.circularDependencies) :
            \A id \in Range(result.circularDependencies[k].cycle) :
                ~IsWorkflowMember(id)

\* ---------------------------------------------------------------------
\* Issues of several rules on one node (checked on the member inputs)

\* The violation kinds of the issues of the report that name node id, in
\* the order of the nine checks.
ViolationsNaming(id) ==
    LET pick(issues, Names(_)) ==
            Map(SelectSeq(issues, Names), LAMBDA i : i.violation)
    IN pick(result.dataPointSourceIssues, LAMBDA i : i.nodeId = id)
       \o pick(result.transformIssues, LAMBDA i : i.nodeId = id)
       \o pick(result.componentReferenceIssues, LAMBDA i : i.nodeId = id)
       \o pick(result.tableDataPointMismatches,
               LAMBDA i : i.dataPointId = id \/ i.tableId = id)
       \o pick(result.circularDependencies, LAMBDA i : id \in Range(i.cycle))
       \o pick(result.workflowIssues, LAMBDA i : i.nodeId = id)
       \o pick(result.orphanIssues, LAMBDA i : i.nodeId = id)
       \o pick(result.tbdIssues, LAMBDA i : i.nodeId = id)
       \o pick(result.duplicateLabelIssues, LAMBDA i : id \in Range(i.nodeIds))

\* The formula and validation transforms that are not workflow members and
\* have no incident edge.
LoneTransforms ==
    {n \in Range(nodes) :
        /\ n.type = "transform" /\ n.dtype \in {"formula", "validation"}
        /\ ~IsWorkflowMember(n.id)
        /\ NoIncidentEdge(n.id)}

\* The workflows with members and no incident edge.
LoneWorkflows == {n \in WorkflowsWithMembers : NoIncidentEdge(n.id)}

\* C27 as stated: a formula or validation transform that is not a workflow
\* member and has no incident edge yields exactly three issues naming it,
\* no-inputs, no-outputs and orphan-node, and a workflow with members and
\* no incident edge yields both workflow-no-outputs and orphan-node.
C27_ThreeIssues ==
    result.ran =>
        /\ \A n \in LoneTransforms :
               ViolationsNaming(n.id) = <<"no-inputs", "no-outputs", "orphan-node">>
        /\ \A n \in LoneWorkflows :
               /\ Len(WfIssues(n.id, "workflow-no-outputs")) = 1
               /\ Len(OrphanIssues(n.id)) = 1

\* C27, amended: issues of different rules are not deduplicated against
\* each other: such a transform yields no-inputs, no-outputs and
\* orphan-node, one each, and the only other issue that can name it is a
\* duplicate-label issue; a workflow with members and no incident edge
\* yields workflow-no-outputs, and orphan-node as well unless it is itself
\* named as a workflow member.
C27_RulesNotDeduplicated ==
    result.ran =>
        /\ \A n \in LoneTransforms :
               SelectSeq(ViolationsNaming(n.id), LAMBDA v : v # "duplicate-label")
                   = <<"no-inputs", "no-outputs", "orphan-node">>
        /\ \A n \in LoneWorkflows :
               /\ Len(WfIssues(n.id, "workflow-no-outputs")) = 1
               /\ Len(OrphanIssues(n.id)) = (IF IsWorkflowMember(n.id) THEN 0 ELSE 1)

\* C27 witness: a report that names an unconnected validation transform in
\* no-inputs, no-outputs, orphan-node and duplicate-label issues, and an
\* unconnected workflow with members in workflow-no-outputs and
\* orphan-node issues.
C27_Witness ==
    /\ result.ran
    /\ \E n \in LoneTransforms :
           /\ n.dtype = "validation"
           /\ ViolationsNaming(n.id)
                  = <<"no-inputs", "no-outputs", "orphan-node", "duplicate-label">>
    /\ \E n \in LoneWorkflows :
           /\ Len(WfIssues(n.id, "workflow-no-outputs")) = 1
           /\ Len(OrphanIssues(n.id)) = 1

\* ---------------------------------------------------------------------
\* YAML import into a stored project

\* validDataType, validSource, validLogicType, validEdgeType: the value
\* when it is one of the valid ones, the default otherwise.
validDataType(t) ==
    IF t \in {"string", "number", "boolean", "object", "array"} THEN t ELSE "string"

validSource(s) == IF s \in {"captured", "inferred"} THEN s ELSE "captured"

validLogicType(t) == IF t \in {"formula", "validation", "workflow"} THEN t ELSE "formula"

validEdgeType(t) == IF t \in EdgeTypes THEN t ELSE "flows-to"

\* An entry of one of the node sections of a specification document; id is
\* NoId when the entry has none, and the entries carry no label.
RawEntry(section, id, type, source) ==
    [section |-> section, id |-> id, type |-> type, source |-> source]

\* The canvas node that importFromYaml pushes for an entry.
importedNode(raw) ==
    CASE raw.section = "dataPoints" ->
            Node(raw.id, "datapoint", Untitled, validDataType(raw.type),
                 validSource(raw.source), <<>>, <<>>, <<>>, <<>>, AllAbsent)
      [] raw.section = "components" ->
            Node(raw.id, "component", <<"Untitled Component">>, Undefined, Undefined,
                 <<>>, <<>>, <<>>, <<>>, AllAbsent \ {"captures", "displays"})
      [] raw.section = "transforms" ->
            Node(raw.id, "transform", <<"Untitled Transform">>, validLogicType(raw.type),
                 Undefined, <<>>, <<>>, <<>>, <<>>, AllAbsent)
      [] raw.section = "tables" ->
            Node(raw.id, "table", <<"Untitled Table">>, Undefined, Undefined,
                 <<>>, <<>>, <<>>, <<>>, AllAbsent \ {"columns"})

RECURSIVE importEntries(_, _)
\* The section loops of importFromYaml: an entry without id, or with an id
\* already in seenIds, is skipped.
importEntries(raws, seenIds) ==
    IF raws = <<>> THEN <<>>
    ELSE LET raw == Head(raws)
         IN IF raw.id = NoId \/ raw.id \in seenIds
            THEN importEntries(Tail(raws), seenIds)
            ELSE <<importedNode(raw)>>
                     \o importEntries(Tail(raws), seenIds \cup {raw.id})

\* importFromYaml: the nodes and edges of a document; uuid is the value
\* that crypto.randomUUID() returns for the screen node.
importFromYaml(spec, uuid) ==
    LET entryNodes ==
            importEntries(spec.dataPoints \o spec.components \o spec.transforms
                              \o spec.tables, {})
        seenIds == {n.id : n \in Range(entryNodes)}
        flows == SelectSeq(spec.dataFlow, LAMBDA flow :
                     /\ flow.from # NoId /\ flow.to # NoId
                     /\ flow.from \in seenIds /\ flow.to \in seenIds)
        screenNodes ==
            IF spec.screens = 0 THEN <<>>
            ELSE <<Node(uuid, "screen", <<"Imported Screen">>, Undefined, Undefined,
                        <<>>, <<>>, <<>>, <<>>, AllAbsent)>>
    IN [nodes |-> entryNodes \o screenNodes,
        edges |-> Map(flows, LAMBDA flow :
                      Edge(flow.from, flow.to, validEdgeType(flow.edgeType)))]

\* handleImportYaml on the stored canvas state: the imported nodes and
\* edges are appended to the stored ones in merge mode and replace them
\* otherwise.
handleImportYaml(spec, merge, uuid, storedNodes, storedEdges) ==
    LET imported == importFromYaml(spec, uuid)
    IN IF merge
       THEN [nodes |-> storedNodes \o imported.nodes,
             edges |-> storedEdges \o imported.edges]
       ELSE imported

\* Import inputs: documents with up to two datapoint entries (ids 1 and 2,
\* or none), possibly a component (id 1), a transform (id 2), a table
\* (id 3), one data flow and one screen.
ImpMaxNodes == 3
ImpMaxEntries == 2

ImpDataPoints ==
    {RawEntry("dataPoints", NoId, Undefined, Undefined),
     RawEntry("dataPoints", 1, "number", "retrieved"),
     RawEntry("dataPoints", 2, Undefined, "inferred")}

ImpFlows ==
    {<<>>, <<[from |-> 1, to |-> 2, edgeType |-> "derives-from"]>>,
     <<[from |-> 2, to |-> 9, edgeType |-> Undefined]>>,
     <<[from |-> 2, to |-> 1, edgeType |-> "depends-on"]>>}

ImpDocuments ==
    {[dataPoints |-> dps, components |-> cs, transforms |-> ts, tables |-> tbls,
      dataFlow |-> fl, screens |-> sc] :
        dps \in SeqsUpTo(ImpDataPoints, ImpMaxEntries),
        cs \in {<<>>, <<RawEntry("components", 1, Undefined, Undefined)>>},
        ts \in {<<>>, <<RawEntry("transforms", 2, "lookup", Undefined)>>},
        tbls \in {<<>>, <<RawEntry("tables", 3, Undefined, Undefined)>>},
        fl \in ImpFlows,
        sc \in 0..1}

\* The values that crypto.randomUUID() can return.
ImpUuids == {7, 8}

\* A project with an empty canvas, or no project.
InitImport ==
    /\ found \in BOOLEAN
    /\ nodes = <<>>
    /\ edges = <<>>
    /\ result = NoResult
    /\ reports = {}

\* The import_yaml tool on the stored project; a fresh uuid is one that no
\* stored node has. Nothing is stored when the project does not exist.
ImportYaml ==
    /\ \E spec \in ImpDocuments, merge \in BOOLEAN,
          uuid \in ImpUuids \ {n.id : n \in Range(nodes)} :
           LET state == handleImportYaml(spec, merge, uuid, nodes, edges)
           IN IF found
              THEN /\ Len(state.nodes) <= ImpMaxNodes
                   /\ nodes' = state.nodes
                   /\ edges' = state.edges
              ELSE UNCHANGED <<nodes, edges>>
    /\ UNCHANGED <<found, result, reports>>

NextImport == ImportYaml

SpecImport == InitImport /\ [][NextImport]_vars

\* C28: after any sequence of YAML imports into the same project, in merge
\* mode or replace mode, no two nodes of the stored canvas state have the
\* same id.
C28_UniqueNodeIds ==
    \A i, j \in 1..Len(nodes) : i # j => nodes[i].id # nodes[j].id

\* ---------------------------------------------------------------------
\* The depth-first search itself (checked on the cycle inputs)

\* The state in which the search over the analysed nodes ends.
SearchEnd ==
    dfsFrom(SelectSeq(nodes, LAMBDA n : n.id \notin collectWorkflowMemberIds(nodes)),
            edges, 1, DfsStart)

\* C29: the cycle search terminates on every graph, with self-loops,
\* parallel edges, overlapping cycles and computation edges whose endpoints
\* are not analysed nodes: the search that produced the reported cycles
\* has entered each node id at most once, has entered exactly the ids it
\* marked visited, and ends with an empty recursion stack.
C29_SearchTerminates ==
    result.ran =>
        LET end == SearchEnd
        IN /\ Map(result.circularDependencies, LAMBDA i : i.cycle)
                  = dedupCycles(end.cycles, 1, {})
           /\ Cardinality(Range(end.entries)) = Len(end.entries)
           /\ Range(end.entries) = end.visited
           /\ end.recStack = {}

\* C29 witness: a finished search on a graph with a self-loop on node 1 and
\* two parallel edges from node 2 to node 1, where node 1 is a workflow
\* member and so not in the analysed node list: the search entered node 1
\* and a cycle is reported.
C29_Witness ==
    /\ result.ran
    /\ IsWorkflowMember(1)
    /\ <<1, 1>> \in ComputationPairs
    /\ \E i, j \in 1..Len(edges) :
           /\ i # j
           /\ edges[i].source = 2 /\ edges[i].target = 1
           /\ edges[j].source = 2 /\ edges[j].target = 1
    /\ Len(result.circularDependencies) >= 1
    /\ 1 \in Range(SearchEnd.entries)
    /\ SearchEnd.recStack = {}

\* ---------------------------------------------------------------------
\* Frame of a validation run (checked on the cycle inputs)

\* C30: validation leaves its input unchanged: after a run the node list
\* and the edge list, with the data of every node and the order of every
\* list, are the ones the run was started on, and every reported cycle is
\* a path as the search recorded it, not its sorted copy.
C30_InputUnchanged ==
    result.ran =>
        /\ [found |-> found, nodes |-> nodes, edges |-> edges, report |-> result]
               \in reports
        /\ {result.circularDependencies[i].cycle :
                i \in 1..Len(result.circularDependencies)}
               \subseteq Range(SearchEnd.cycles)

\* C30 witness: after a run on a node list that is not in id order, with a
\* workflow that has a member list and with edges that are not in order of
\* their sources, a cycle is reported that is not in sorted order.
C30_Witness ==
    /\ result.ran
    /\ Len(nodes) = 4 /\ nodes[1].id > nodes[2].id
    /\ Len(nodes[4].members) = 2
    /\ Len(edges) >= 2 /\ edges[1].source > edges[2].source
    /\ \E i \in 1..Len(result.circularDependencies) :
           result.circularDependencies[i].cycle
               # sortedIds(result.circularDependencies[i].cycle)
    /\ [found |-> found, nodes |-> nodes, edges |-> edges, report |-> result] \in reports

=============================================================================
